---- MODULE Spec2Model ----
(***************************************************************************)
(* DocPilot backend: the retrieval pipeline (vector search, keyword       *)
(* search, fusion, rerank) over the multi-tenant store, and the resilient *)
(* write spool (handlers that spool failed writes, the drain loop).       *)
(*                                                                         *)
(* Source: backend/app/main.py, backend/app/db.py.                         *)
(***************************************************************************)
EXTENDS Integers, Sequences, FiniteSets, TLC

VARIABLES
    documents,   \* table documents: id -> [org_id, user_id, title, category]
    chunks,      \* table chunks: id -> [doc_id, ord, org_id, kw, dist]
    eval_logs,   \* table eval_logs: id -> row
    audit_logs,  \* table audit_logs: id -> row
    spool,       \* SPOOL_DIR: file name -> file content
    ncalls,      \* number of inbound calls served so far (seeds uuid4)
    call,        \* summary of the last handler call (what failed, response)
    drain,       \* position of _spool_drain_loop in its cycle
    step,        \* summary of the last record the drain loop handled
    rows,        \* the passages the last retrieval endpoint call returned
    sent,        \* history: file name -> the record spooled and the write it stands for
    fn           \* the last call of a function called on its own: arguments, result

vars == <<documents, chunks, eval_logs, audit_logs, spool, ncalls, call, drain, step, rows, sent, fn>>

(* ------------------------------------------------------------------ *)
(* Bounds of the model                                                 *)
(* ------------------------------------------------------------------ *)
MaxCalls == 2      \* inbound calls (handler calls and direct spool writes)
MaxDocs == 2       \* documents ingested in the read-path specification
MaxPassages == 6   \* passages in a list handed to the evidence heuristics
MaxTokens == 3     \* tokens of a text handed to make_chunks
MaxIds == 3        \* distinct chunk ids in the rankings handed to the fusion
TopKs == {1, 2}         \* top_k values a retrieval request carries
KwCounts == {0, 1}      \* keyword occurrence counts of a chunk text
Dists == {1, 2}         \* distances of a chunk to the query vector
RerankScores == {0, 1}  \* scores the cross-encoder may give

(* Program constants *)
KnnOverFetch == 5        \* knn_search: LIMIT top_k * 5 before the category filter
HybridFtOverFetch == 10  \* hybrid_search: LIMIT top_k * 10 in the ft CTE
HYBRID_FT_CANDIDATES == 100
HYBRID_VEC_CANDIDATES == 100
HYBRID_RRF_K == 60
RerankCap == 10          \* query/answer: min(10, len(rows)) when a keyword is given

None == "None"           \* Python None / SQL NULL / JSON null after loading
Orgs == {"A", "B"}
Categories == {"legal"}

Max(a, b) == IF a >= b THEN a ELSE b
Min(a, b) == IF a <= b THEN a ELSE b

(* Python truthiness of an optional string: None and "" are falsy. *)
Truthy(x) == x # None /\ x # ""

(* ------------------------------------------------------------------ *)
(* Sequences helpers                                                   *)
(* ------------------------------------------------------------------ *)
Range(s) == {s[i] : i \in DOMAIN s}

Injective(s) == \A i, j \in DOMAIN s : i # j => s[i] # s[j]

(* All orderings of the finite set S that are non-decreasing in Key:      *)
(* what ORDER BY Key ASC may return (rows with equal keys in any order).  *)
OrderByRel(S, Before(_, _)) ==
    {s \in [1..Cardinality(S) -> S] :
        /\ Injective(s)
        /\ \A i, j \in 1..Cardinality(S) : i < j => Before(s[i], s[j])}

OrderBy(S, Key(_)) ==
    LET Before(a, b) == Key(a) <= Key(b) IN OrderByRel(S, Before)

OrderByDesc(S, Key(_)) ==
    LET Before(a, b) == Key(a) >= Key(b) IN OrderByRel(S, Before)

(* LIMIT n (a negative n never reaches SQL in the modelled calls). *)
Limit(s, n) == SubSeq(s, 1, Min(Len(s), Max(n, 0)))

(* The stable sort Python's list.sort performs: positions ordered by key, *)
(* equal keys keeping their original order. K is a function on 1..n to    *)
(* pairs <<k1, k2>> compared lexicographically.                           *)
LexLess(a, b) == a[1] < b[1] \/ (a[1] = b[1] /\ a[2] < b[2])

StableSort(s, K) ==
    LET n == Len(s)
        p == CHOOSE q \in [1..n -> 1..n] :
                /\ Injective(q)
                /\ \A i, j \in 1..n : i < j =>
                      \/ LexLess(K[q[i]], K[q[j]])
                      \/ (K[q[i]] = K[q[j]] /\ q[i] < q[j])
    IN [i \in 1..n |-> s[p[i]]]

(* ------------------------------------------------------------------ *)
(* Primary storage: upserts and inserts (db.py)                        *)
(* ------------------------------------------------------------------ *)
Put(f, k, v) == [x \in DOMAIN f \cup {k} |-> IF x = k THEN v ELSE f[x]]

(* upsert_document: INSERT ... ON DUPLICATE KEY UPDATE title, meta,       *)
(* user_id, and org_id only when an org_id is given.                      *)
upsert_document(docs, doc_id, title, meta, org_id, user_id) ==
    IF doc_id \in DOMAIN docs
    THEN Put(docs, doc_id,
             [org_id |-> IF org_id # None THEN org_id ELSE docs[doc_id].org_id,
              user_id |-> user_id,
              title |-> title,
              category |-> IF meta # None THEN meta ELSE docs[doc_id].category])
    ELSE Put(docs, doc_id,
             [org_id |-> org_id, user_id |-> user_id, title |-> title,
              category |-> meta])

(* One chunk row of upsert_chunks: (chunk_id, doc_id, ord, text, vector). *)
(* The text is carried as its keyword occurrence count, the vector as its *)
(* distance to the query vector.                                          *)
UpsertChunkRow(ch, r, org_id) ==
    IF r[1] \in DOMAIN ch
    THEN Put(ch, r[1],
             [ch[r[1]] EXCEPT !.kw = r[4], !.dist = r[5],
                              !.org_id = IF org_id # None THEN org_id ELSE @])
    ELSE Put(ch, r[1],
             [doc_id |-> r[2], ord |-> r[3], org_id |-> org_id,
              kw |-> r[4], dist |-> r[5]])

RECURSIVE UpsertChunkRows(_, _, _, _)
UpsertChunkRows(ch, rs, org_id, i) ==
    IF i > Len(rs) THEN ch
    ELSE UpsertChunkRows(UpsertChunkRow(ch, rs[i], org_id), rs, org_id, i + 1)

upsert_chunks(ch, rs, org_id) == UpsertChunkRows(ch, rs, org_id, 1)

(* ------------------------------------------------------------------ *)
(* Retrieval (db.py)                                                   *)
(* ------------------------------------------------------------------ *)
(* A result row: the dictionary cursor's id, doc_id, ord, dist (the text  *)
(* is the chunk's, found by id).                                          *)
Row(ch, c) == [id |-> c, doc_id |-> ch[c].doc_id, ord |-> ch[c].ord, dist |-> ch[c].dist]

RowsOf(ch, ids) == [i \in DOMAIN ids |-> Row(ch, ids[i])]

(* JSON_UNQUOTE(JSON_EXTRACT(d.meta,'$.category')) = cat, joined on doc_id. *)
DocHasCategory(ch, docs, c, cat) ==
    /\ ch[c].doc_id \in DOMAIN docs
    /\ docs[ch[c].doc_id].category = cat

(* "AND d.org_id = %s" if org_id else "" *)
DocInOrg(ch, docs, c, org_id) ==
    Truthy(org_id) => (ch[c].doc_id \in DOMAIN docs /\ docs[ch[c].doc_id].org_id = org_id)

(* ChunkInOrg with the WHERE clause dropped: tenant isolation fails with it. *)
ChunkInAnyOrg(ch, c, org_id) == TRUE

(* "WHERE org_id = %s" if org_id else "" *)
ChunkInOrg(ch, c, org_id) == Truthy(org_id) => ch[c].org_id = org_id

(* knn_search: the set of row lists the two queries may return. *)
knn_search(ch, docs, top_k, filter_category, org_id) ==
    LET cand == {c \in DOMAIN ch : ChunkInOrg(ch, c, org_id)}
        ByDist(c) == ch[c].dist
    IN IF Truthy(filter_category)
       THEN UNION {
              LET joined == {c \in Range(knn) :
                               /\ DocHasCategory(ch, docs, c, filter_category)
                               /\ DocInOrg(ch, docs, c, org_id)}
              IN {RowsOf(ch, Limit(s, top_k)) : s \in OrderBy(joined, ByDist)}
              : knn \in {Limit(s, top_k * KnnOverFetch) : s \in OrderBy(cand, ByDist)}}
       ELSE {RowsOf(ch, Limit(s, top_k)) : s \in OrderBy(cand, ByDist)}

(* The rows a LIMIT n without ORDER BY may keep: any n of them. *)
AnyLimit(S, n) ==
    IF Cardinality(S) <= n THEN {S}
    ELSE {T \in SUBSET S : Cardinality(T) = n}

(* hybrid_search: keyword pre-filter (FULLTEXT BOOLEAN MODE, or LIKE when   *)
(* the first statement raises), then cosine distance on the filtered set.  *)
(* path is "fulltext" (first statement succeeds) or "like" (it raised and  *)
(* the LIKE statement ran). A chunk text matches when the keyword occurs.  *)
hybrid_search(ch, docs, top_k, filter_category, org_id, path) ==
    LET ByDist(c) == ch[c].dist
        matches == {c \in DOMAIN ch :
                      /\ ch[c].kw > 0
                      /\ IF Truthy(filter_category)
                         THEN /\ DocHasCategory(ch, docs, c, filter_category)
                              /\ DocInOrg(ch, docs, c, org_id)
                         ELSE ChunkInOrg(ch, c, org_id)}
    IN UNION {
         LET final == {c \in ft : ChunkInOrg(ch, c, org_id)}
         IN {RowsOf(ch, Limit(s, top_k)) : s \in OrderBy(final, ByDist)}
         : ft \in AnyLimit(matches, top_k * HybridFtOverFetch)}

(* "(org_id <=> %s OR %s IS NULL)" *)
OrgNullSafe(x, org_id) == org_id = None \/ x = org_id

Pos(s, x) == CHOOSE i \in DOMAIN s : s[i] = x

(* rrf_score as an exact fraction <<numerator, denominator>>. *)
rrf_score(rid, ft_ids, vec_ids, rrf_k) ==
    LET inFt == rid \in Range(ft_ids)
        inVec == rid \in Range(vec_ids)
        df == rrf_k + (IF inFt THEN Pos(ft_ids, rid) ELSE 0)
        dv == rrf_k + (IF inVec THEN Pos(vec_ids, rid) ELSE 0)
    IN IF inFt /\ inVec THEN <<df + dv, df * dv>>
       ELSE IF inFt THEN <<1, df>>
       ELSE IF inVec THEN <<1, dv>>
       ELSE <<0, 1>>

FracGeq(a, b) == a[1] * b[2] >= b[1] * a[2]

(* The fusion without its sort: the ids in the order the set gives them. *)
FuseUnsorted(ch, ft_ids, vec_rows, top_k, rrf_k) ==
    LET vec_ids == [i \in DOMAIN vec_rows |-> vec_rows[i].id]
        all_ids == Range(ft_ids) \cup Range(vec_ids)
        Before(a, b) == TRUE
    IN {[i \in DOMAIN r |->
           [id |-> r[i], doc_id |-> ch[r[i]].doc_id, ord |-> ch[r[i]].ord,
            dist |-> IF r[i] \in Range(vec_ids) THEN ch[r[i]].dist ELSE 0]] :
          r \in {Limit(q, top_k) : q \in OrderByRel(all_ids, Before)}}

(* Steps 3-5 of hybrid_fusion_search on one full-text ranking (ids) and     *)
(* one vector ranking (rows): the row lists sorted(..., reverse=True) may   *)
(* produce (all_ids is built from a set, so equal scores come in any order).*)
Fuse(ch, ft_ids, vec_rows, top_k, rrf_k) ==
    LET vec_ids == [i \in DOMAIN vec_rows |-> vec_rows[i].id]
        all_ids == Range(ft_ids) \cup Range(vec_ids)
        Before(a, b) == FracGeq(rrf_score(a, ft_ids, vec_ids, rrf_k),
                                rrf_score(b, ft_ids, vec_ids, rrf_k))
        Out(rid) == [id |-> rid, doc_id |-> ch[rid].doc_id, ord |-> ch[rid].ord,
                     dist |-> IF rid \in Range(vec_ids) THEN ch[rid].dist ELSE 0]
    IN {[i \in DOMAIN r |-> Out(r[i])] :
          r \in {Limit(s, top_k) : s \in OrderByRel(all_ids, Before)}}

(* Step 1 of hybrid_fusion_search: the full-text rankings (ids). path is    *)
(* "fulltext" (MATCH ... AGAINST scored every row in scope), "like" (that   *)
(* statement raised, LIKE-derived score), or "none" (both raised).          *)
FusionFtRankings(ch, docs, filter_category, org_id, path, ft_limit) ==
    LET scope == {c \in DOMAIN ch :
                    IF Truthy(filter_category)
                    THEN /\ ch[c].doc_id \in DOMAIN docs
                         /\ OrgNullSafe(docs[ch[c].doc_id].org_id, org_id)
                         /\ DocHasCategory(ch, docs, c, filter_category)
                    ELSE OrgNullSafe(ch[c].org_id, org_id)}
        ByScore(c) == ch[c].kw
    IN CASE path = "fulltext" ->
              {Limit(s, ft_limit) : s \in OrderByDesc(scope, ByScore)}
         [] path = "like" ->
              {Limit(s, ft_limit) :
                 s \in OrderByDesc({c \in scope : ch[c].kw > 0}, ByScore)}
         [] OTHER -> {<<>>}

hybrid_fusion_search(ch, docs, top_k, filter_category, org_id, path) ==
    LET ft_limit == Max(10, HYBRID_FT_CANDIDATES)
        vec_limit == Max(top_k, HYBRID_VEC_CANDIDATES)
        rrf_k == Max(1, HYBRID_RRF_K)
    IN UNION {Fuse(ch, ft_ids, vec_rows, top_k, rrf_k) :
                <<ft_ids, vec_rows>> \in
                   FusionFtRankings(ch, docs, filter_category, org_id, path, ft_limit)
                   \X knn_search(ch, docs, vec_limit, filter_category, org_id)}

(* insert_eval_log / insert_audit: a plain INSERT on a table whose id is    *)
(* the primary key. The statement raises on a duplicate id.                 *)
InsertRaises(table, row) == row.id \in DOMAIN table

insert_eval_log(table, row) == Put(table, row.id, row)

insert_audit(table, row) == Put(table, row.id, row)

(* update_eval_rating: UPDATE eval_logs SET rating = ... WHERE id = ...; *)
(* no row with that id, no change and no error.                          *)
update_eval_rating(table, eval_id, rating) ==
    IF eval_id \in DOMAIN table
    THEN [table EXCEPT ![eval_id] = [@ EXCEPT !.rating = rating]]
    ELSE table

(* ------------------------------------------------------------------ *)
(* The spool directory (main.py)                                       *)
(* ------------------------------------------------------------------ *)
(* uuid.uuid4(): a fresh identifier, here the serving call's number and   *)
(* the purpose it is drawn for.                                           *)
Uuid(n, tag) == <<n, tag>>

NullableFields == {"meta", "org_id", "user_id", "rating", "keyword", "filter_category"}

(* json.dumps(record): None becomes null, tuples and lists become arrays   *)
(* (both are sequences here), nested dictionaries are encoded by field.   *)
RECURSIVE JsonDumps(_)
JsonDumps(rec) ==
    [f \in DOMAIN rec |->
        IF f \in NullableFields THEN (IF rec[f] = None THEN "null" ELSE rec[f])
        ELSE IF f = "row" THEN JsonDumps(rec[f])
        ELSE rec[f]]

(* A decoder that leaves null as it is written: payloads are not recovered. *)
JsonLoadsRaw(obj) == obj

(* json.loads(text): null becomes None, arrays become lists. *)
RECURSIVE JsonLoads(_)
JsonLoads(obj) ==
    [f \in DOMAIN obj |->
        IF f \in NullableFields THEN (IF obj[f] = "null" THEN None ELSE obj[f])
        ELSE IF f = "row" THEN JsonLoads(obj[f])
        ELSE obj[f]]

(* A spool file: its text decodes as JSON (valid) to the object obj, or not. *)
FileOf(record) == [valid |-> TRUE, obj |-> JsonDumps(record)]

GarbageFile == [valid |-> FALSE, obj |-> [type |-> "garbage"]]

(* _spool_write: one new file <uuid4>.json holding json.dumps(record). *)
_spool_write(sp, name, record) == Put(sp, name, FileOf(record))

(* _spool_list: every *.json file of the directory. *)
_spool_list(sp) == DOMAIN sp

(* _spool_read: the decoded dictionary, or None when open/decode raises.   *)
NoRec == [none |-> TRUE]

_spool_read(sp, name) ==
    IF sp[name].valid THEN JsonLoads(sp[name].obj) ELSE NoRec

(* "if not rec": None and the empty dictionary are falsy. *)
Falsy(rec) == rec = NoRec \/ DOMAIN rec = {}

(* A delete that removes nothing: replayed records would stay pending. *)
_spool_keep(sp, name) == sp

(* _spool_delete: os.remove(path). *)
_spool_delete(sp, name) == [x \in DOMAIN sp \ {name} |-> sp[x]]

(* rec.get(key): the value, or None. *)
Get(rec, key) == IF key \in DOMAIN rec THEN rec[key] ELSE None

(* ------------------------------------------------------------------ *)
(* The drain loop (main.py, _spool_drain_loop)                         *)
(* ------------------------------------------------------------------ *)
NoWrite == [kind |-> "none"]

DrainFaults == {"none", "conn", "write1", "write2", "close"}

(* The body of the inner try for one record: what the replay writes and   *)
(* whether it raises. fault names the storage call that fails: get_conn   *)
(* ("conn"), the first write ("write1"), upsert_chunks ("write2"),        *)
(* conn.close ("close"). A missing key raises KeyError where the          *)
(* subscription is evaluated.                                             *)
Replay(rec, fault, docs, ch, ev, au) ==
    LET rtype == Get(rec, "type")
        same == [raised |-> TRUE, documents |-> docs, chunks |-> ch,
                 eval_logs |-> ev, audit_logs |-> au, args |-> NoWrite]
    IN CASE rtype = "ingest" ->
              IF fault = "conn" \/ "doc_id" \notin DOMAIN rec \/ "title" \notin DOMAIN rec
                 \/ fault = "write1"
              THEN same
              ELSE LET d1 == upsert_document(docs, rec.doc_id, rec.title,
                                             Get(rec, "meta"), Get(rec, "org_id"), None)
                       a1 == [kind |-> "ingest", doc_id |-> rec.doc_id, title |-> rec.title,
                              meta |-> Get(rec, "meta"), org_id |-> Get(rec, "org_id"),
                              user_id |-> None, rows |-> Get(rec, "rows")]
                   IN IF "rows" \notin DOMAIN rec \/ fault = "write2"
                      THEN [same EXCEPT !.documents = d1]
                      ELSE [raised |-> fault = "close", documents |-> d1,
                            chunks |-> upsert_chunks(ch, rec.rows, Get(rec, "org_id")),
                            eval_logs |-> ev, audit_logs |-> au, args |-> a1]
         [] rtype = "eval_log" ->
              IF fault = "conn" \/ "row" \notin DOMAIN rec \/ fault = "write1"
                 \/ InsertRaises(ev, rec.row)
              THEN same
              ELSE [raised |-> fault = "close", documents |-> docs, chunks |-> ch,
                    eval_logs |-> insert_eval_log(ev, rec.row), audit_logs |-> au,
                    args |-> [kind |-> "eval_log", row |-> rec.row]]
         [] rtype = "audit_log" ->
              IF fault = "conn" \/ "row" \notin DOMAIN rec \/ fault = "write1"
                 \/ InsertRaises(au, rec.row)
              THEN same
              ELSE [raised |-> fault = "close", documents |-> docs, chunks |-> ch,
                    eval_logs |-> ev, audit_logs |-> insert_audit(au, rec.row),
                    args |-> [kind |-> "audit_log", row |-> rec.row]]
         [] OTHER -> [same EXCEPT !.raised = FALSE]

RecognizedTypes == {"ingest", "eval_log", "audit_log"}

(* The faults that can strike the handling of a record: none where no    *)
(* storage call is made, no second write for the single-insert types.    *)
FaultsFor(sp, name) ==
    LET rec == _spool_read(sp, name)
        rtype == IF Falsy(rec) THEN None ELSE Get(rec, "type")
    IN CASE rtype = "ingest" -> DrainFaults
         [] rtype \in {"eval_log", "audit_log"} -> DrainFaults \ {"write2"}
         [] OTHER -> {"none"}

IdleDrain ==
    [active |-> FALSE, pending |-> {}, snapshot |-> {}, replays |-> {}, clean |-> TRUE]

NoStep ==
    [name |-> <<0, "file">>, file |-> GarbageFile, rtype |-> None, fault |-> "none",
     raised |-> FALSE, args |-> NoWrite]

(* The top of a cycle: list(_spool_list()) snapshots the directory. *)
DrainStart ==
    /\ ~drain.active
    /\ drain' = [active |-> TRUE, pending |-> _spool_list(spool),
                 snapshot |-> _spool_list(spool), replays |-> {}, clean |-> TRUE]
    /\ UNCHANGED <<documents, chunks, eval_logs, audit_logs, spool, ncalls, call, step, rows, sent, fn>>

(* One iteration of the for loop, on any listed path (os.listdir gives no  *)
(* order): read, drop a falsy record, replay a recognized one and delete   *)
(* it when nothing raised, drop an unrecognized one.                       *)
DrainStep(name, fault) ==
    /\ drain.active
    /\ name \in drain.pending
    /\ fault \in FaultsFor(spool, name)
    /\ LET rec == _spool_read(spool, name)
           rtype == IF Falsy(rec) THEN None ELSE Get(rec, "type")
           r == IF Falsy(rec)
                THEN [raised |-> FALSE, documents |-> documents, chunks |-> chunks,
                      eval_logs |-> eval_logs, audit_logs |-> audit_logs, args |-> NoWrite]
                ELSE Replay(rec, fault, documents, chunks, eval_logs, audit_logs)
       IN /\ documents' = r.documents
          /\ chunks' = r.chunks
          /\ eval_logs' = r.eval_logs
          /\ audit_logs' = r.audit_logs
          /\ spool' = IF r.raised THEN spool ELSE _spool_delete(spool, name)
          /\ step' = [name |-> name, file |-> spool[name], rtype |-> rtype,
                      fault |-> fault, raised |-> r.raised, args |-> r.args]
          /\ drain' = [drain EXCEPT
                         !.pending = @ \ {name},
                         !.clean = @ /\ ~r.raised,
                         !.replays = IF rtype \in RecognizedTypes
                                     THEN @ \cup {[name |-> name, rec |-> rec]}
                                     ELSE @]
    /\ UNCHANGED <<ncalls, call, rows, sent, fn>>

(* The for loop is exhausted: asyncio.sleep(SPOOL_DRAIN_SECS). The cycle's *)
(* locals (the listing, drained) are gone.                                 *)
DrainEnd ==
    /\ drain.active
    /\ drain.pending = {}
    /\ drain' = IdleDrain
    /\ step' = NoStep
    /\ UNCHANGED <<documents, chunks, eval_logs, audit_logs, spool, ncalls, call, rows, sent, fn>>

(* ------------------------------------------------------------------ *)
(* Request middleware and helpers (main.py)                            *)
(* ------------------------------------------------------------------ *)
NoSession == [org_id |-> None, user_id |-> None, valid |-> FALSE]

(* The values of the X-Role header. *)
Roles == {"viewer", "analyst", "editor", "admin", "auditor"}

(* POLICY_PATH_ROLES: the roles the first matching path prefix admits     *)
(* ("/debug/" for /debug/schema); a path no prefix matches is not checked. *)
PolicyRoles(path) ==
    CASE path \in {"/ingest/text"} -> {"editor", "admin"}
      [] path \in {"/answer", "/answer/stream", "/query", "/export/pdf"} ->
             {"viewer", "analyst", "editor", "admin"}
      [] path \in {"/debug/schema"} -> {"editor", "admin"}
      [] OTHER -> Roles

(* log_requests: the request context the handler runs in, or the status   *)
(* the middleware answers with. sess is the users/sessions row the bearer *)
(* token resolves to; hdr_org and role are the X-Org-Id and X-Role        *)
(* headers. REQUIRE_LOGIN keeps its default (true).                        *)
log_requests(path, sess, hdr_org, role) ==
    LET org == IF sess.valid THEN sess.org_id
               ELSE (IF hdr_org = None THEN "" ELSE hdr_org)
        user == IF sess.valid THEN sess.user_id ELSE ""
    IN [status |-> IF ~sess.valid THEN 401
                   ELSE IF role \notin PolicyRoles(path) /\ role # "admin" THEN 403
                   ELSE 200,
        org_id |-> org, user_id |-> user, role |-> role]

(* is_allowed(allowed_roles) *)
is_allowed(role, allowed) == role \in allowed \/ role = "admin"

(* audit_event: the insert is tried once; a failure is logged and dropped. *)
(* afault is "none" or "fail" (get_conn or insert_audit raises).           *)
audit_event(au, n, route, ctx, afault) ==
    IF afault = "none"
    THEN insert_audit(au, [id |-> Uuid(n, "audit"), user_id |-> ctx.user_id,
                           route |-> route, org_id |-> ctx.org_id])
    ELSE au

(* The spooling of a record by a handler, with the history of what it     *)
(* stands for. *)
Spooled(n, record, write) ==
    /\ spool' = _spool_write(spool, Uuid(n, "file"), record)
    /\ sent' = Put(sent, Uuid(n, "file"), [record |-> record, write |-> write])

NotSpooled == spool' = spool /\ sent' = sent

NoFile == <<0, "file">>

(* The summary of a call that the middleware or the role check answered. *)
Rejected(handler, status) ==
    [handler |-> handler, status |-> status, fault |-> "none", audit |-> "skipped",
     write |-> NoWrite, file |-> NoFile, eval_id |-> NoFile]

(* ------------------------------------------------------------------ *)
(* POST /ingest/text (main.py, ingest_text)                            *)
(* ------------------------------------------------------------------ *)
IngestFaults == {"none", "conn", "doc", "chunks", "close"}

(* attrs: the chunks make_chunks and embed_texts produce for the text, each *)
(* <<keyword count, distance>>. fault names the storage call that raises.  *)
IngestText(sess, hdr_org, role, meta, attrs, fault, afault) ==
    LET n == ncalls + 1
        ctx == log_requests("/ingest/text", sess, hdr_org, role)
        doc_id == Uuid(n, "doc")
        rws == [i \in DOMAIN attrs |->
                  <<Uuid(n, <<"chunk", i>>), doc_id, i - 1, attrs[i][1], attrs[i][2]>>]
        write == [kind |-> "ingest", doc_id |-> doc_id, title |-> "t", meta |-> meta,
                  org_id |-> hdr_org, user_id |-> ctx.user_id, rows |-> rws]
        record == [type |-> "ingest", doc_id |-> doc_id, title |-> "t", meta |-> meta,
                   org_id |-> hdr_org, rows |-> rws]
    IN /\ ncalls' = n
       /\ UNCHANGED <<eval_logs, drain, step, rows, fn>>
       /\ IF ctx.status # 200 \/ ~is_allowed(ctx.role, {"editor", "admin"})
          THEN /\ call' = Rejected("ingest_text", IF ctx.status # 200 THEN ctx.status ELSE 403)
               /\ NotSpooled
               /\ UNCHANGED <<documents, chunks, audit_logs>>
          ELSE IF fault \in {"conn", "doc"}
          THEN \* get_conn or upsert_document raises: the outer except answers 500
               /\ call' = [handler |-> "ingest_text", status |-> 500, fault |-> fault,
                           audit |-> "skipped", write |-> write, file |-> NoFile,
                           eval_id |-> NoFile]
               /\ NotSpooled
               /\ UNCHANGED <<documents, chunks, audit_logs>>
          ELSE /\ documents' = upsert_document(documents, doc_id, "t", meta, hdr_org, ctx.user_id)
               /\ chunks' = IF fault = "chunks" THEN chunks
                            ELSE upsert_chunks(chunks, rws, hdr_org)
               /\ IF fault = "none" THEN NotSpooled ELSE Spooled(n, record, write)
               /\ audit_logs' = audit_event(audit_logs, n, "ingest_text", ctx, afault)
               /\ call' = [handler |-> "ingest_text", status |-> 200, fault |-> fault,
                           audit |-> afault, write |-> write,
                           file |-> IF fault = "none" THEN NoFile ELSE Uuid(n, "file"),
                           eval_id |-> NoFile]

(* ------------------------------------------------------------------ *)
(* Retrieval endpoints (main.py)                                       *)
(* ------------------------------------------------------------------ *)
(* rerank_passages: score_pairs gives one score per passage (scores); the *)
(* list is sorted by (-rerank_score, dist), Python's sort being stable.   *)
rerank_passages(passages, scores) ==
    IF passages = <<>> THEN passages
    ELSE LET scored == [i \in DOMAIN passages |->
                          [id |-> passages[i].id, doc_id |-> passages[i].doc_id,
                           ord |-> passages[i].ord, dist |-> passages[i].dist,
                           rerank_score |-> scores[i]]]
             K == [i \in DOMAIN passages |-> <<0 - scores[i], passages[i].dist>>]
         IN StableSort(scored, K)

(* "if payload.keyword: hybrid_search(...) else: knn_search(...)", always *)
(* with request.headers.get("X-Org-Id") as the tenant scope.              *)
SearchRows(keyword, top_k, filter_category, hdr_org, path) ==
    IF keyword
    THEN hybrid_search(chunks, documents, top_k, filter_category, hdr_org, path)
    ELSE knn_search(chunks, documents, top_k, filter_category, hdr_org)

EvalFaults == {"none", "conn", "insert", "close"}

(* The evaluation-log block of a handler, its audit_event and its answer. *)
(* row is the row handed to insert_eval_log; spool_row the row of the     *)
(* record handed to _spool_write in the except branch (NoWrite when the   *)
(* branch only logs a warning).                                           *)
LogAndAnswer(n, handler, ctx, row, spool_row, fault, afault, eval_id) ==
    /\ eval_logs' = IF fault \in {"none", "close"}
                    THEN insert_eval_log(eval_logs, row) ELSE eval_logs
    /\ IF fault = "none" \/ spool_row = NoWrite
       THEN NotSpooled
       ELSE Spooled(n, [type |-> "eval_log", row |-> spool_row],
                    [kind |-> "eval_log", row |-> row])
    /\ audit_logs' = audit_event(audit_logs, n, handler, ctx, afault)
    /\ call' = [handler |-> handler, status |-> 200, fault |-> fault, audit |-> afault,
                write |-> [kind |-> "eval_log", row |-> row],
                file |-> IF fault = "none" \/ spool_row = NoWrite
                         THEN NoFile ELSE Uuid(n, "file"),
                eval_id |-> eval_id]

EvalRow(id, route, hdr_org, keyword, top_k, filter_category) ==
    [id |-> id, route |-> route, keyword |-> IF keyword THEN "kw" ELSE None,
     top_k |-> top_k, filter_category |-> filter_category,
     org_id |-> hdr_org, rating |-> None]

(* What a retrieval leaves in rows: who called, and the passages. *)
Retrieved(handler, sess, hdr_org, passages) ==
    [handler |-> handler, caller |-> sess.org_id, scope |-> hdr_org, out |-> passages]

RejectedCall(handler, ctx) ==
    /\ call' = Rejected(handler, IF ctx.status # 200 THEN ctx.status ELSE 403)
    /\ NotSpooled
    /\ UNCHANGED <<eval_logs, audit_logs, rows>>

(* POST /query *)
Query(sess, hdr_org, role, keyword, top_k, filter_category, path, fault, afault) ==
    LET n == ncalls + 1
        ctx == log_requests("/query", sess, hdr_org, role)
    IN /\ ncalls' = n
       /\ UNCHANGED <<documents, chunks, drain, step, fn>>
       /\ IF ctx.status # 200 \/ ~is_allowed(ctx.role, {"analyst", "viewer", "editor"})
          THEN RejectedCall("query", ctx)
          ELSE \E found \in SearchRows(keyword, top_k, filter_category, hdr_org, path) :
               \E scores \in [DOMAIN found -> RerankScores] :
                 LET ranked == rerank_passages(found, scores)
                     final_top_k == IF keyword THEN Min(RerankCap, Len(ranked)) ELSE top_k
                 IN /\ rows' = Retrieved("query", sess, hdr_org, Limit(ranked, final_top_k))
                    /\ LogAndAnswer(n, "query", ctx,
                                    EvalRow(Uuid(n, "eval"), "query", hdr_org, keyword, top_k, filter_category),
                                    EvalRow(Uuid(n, "eval2"), "query", hdr_org, keyword, top_k, filter_category),
                                    fault, afault, NoFile)

(* POST /answer *)
Answer(sess, hdr_org, role, keyword, top_k, filter_category, path, fault, afault) ==
    LET n == ncalls + 1
        ctx == log_requests("/answer", sess, hdr_org, role)
        k == IF top_k = 0 THEN 10 ELSE top_k
    IN /\ ncalls' = n
       /\ UNCHANGED <<documents, chunks, drain, step, fn>>
       /\ IF ctx.status # 200 \/ ~is_allowed(ctx.role, {"editor", "analyst", "viewer"})
          THEN RejectedCall("answer", ctx)
          ELSE \E found \in SearchRows(keyword, k, filter_category, hdr_org, path) :
               \E scores \in [DOMAIN found -> RerankScores] :
                 LET ranked == rerank_passages(found, scores)
                     final_top_k == IF keyword THEN Min(RerankCap, Len(ranked)) ELSE k
                 IN /\ rows' = Retrieved("answer", sess, hdr_org, Limit(ranked, final_top_k))
                    /\ LogAndAnswer(n, "answer", ctx,
                                    EvalRow(Uuid(n, "eval"), "answer", hdr_org, keyword, k, filter_category),
                                    EvalRow(Uuid(n, "eval"), "answer", hdr_org, keyword, k, filter_category),
                                    fault, afault, Uuid(n, "eval"))

(* POST /export/pdf: vector search only, no rerank; the except branch of  *)
(* the evaluation-log insert only logs a warning.                         *)
ExportPdf(sess, hdr_org, role, top_k, filter_category, fault, afault) ==
    LET n == ncalls + 1
        ctx == log_requests("/export/pdf", sess, hdr_org, role)
    IN /\ ncalls' = n
       /\ UNCHANGED <<documents, chunks, drain, step, fn>>
       /\ IF ctx.status # 200 \/ ~is_allowed(ctx.role, {"analyst", "editor", "viewer"})
          THEN RejectedCall("export_pdf", ctx)
          ELSE \E found \in knn_search(chunks, documents, top_k, filter_category, hdr_org) :
                 /\ rows' = Retrieved("export_pdf", sess, hdr_org, found)
                 /\ LogAndAnswer(n, "export_pdf", ctx,
                                 EvalRow(Uuid(n, "eval"), "export_pdf", hdr_org, FALSE, top_k, filter_category),
                                 NoWrite, fault, afault, NoFile)

(* GET /debug/schema: role check, DESCRIBE and SHOW INDEX on one          *)
(* connection, an audit event; any exception becomes status 500. fault   *)
(* is "none" or "conn" (storage is down).                                *)
DebugSchema(sess, hdr_org, role, fault, afault) ==
    LET n == ncalls + 1
        ctx == log_requests("/debug/schema", sess, hdr_org, role)
        status == IF ctx.status # 200 THEN ctx.status
                  ELSE IF ~is_allowed(ctx.role, {"analyst", "viewer", "editor", "admin"}) THEN 403
                  ELSE IF fault # "none" THEN 500
                  ELSE 200
    IN /\ ncalls' = n
       /\ audit_logs' = IF status = 200
                        THEN audit_event(audit_logs, n, "debug_schema", ctx, afault)
                        ELSE audit_logs
       /\ call' = [handler |-> "debug_schema", status |-> status, fault |-> fault,
                   audit |-> IF status = 200 THEN afault ELSE "skipped",
                   write |-> NoWrite, file |-> NoFile, eval_id |-> NoFile,
                   role |-> role, valid |-> sess.valid]
       /\ NotSpooled
       /\ UNCHANGED <<documents, chunks, eval_logs, drain, step, rows, fn>>

(* The ratings of FeedbackBody (integers, written as their text). *)
Ratings == {"1", "5"}

(* POST /feedback: update_eval_rating on its own connection; "ok" unless *)
(* a storage call raises (fault "conn").                                 *)
Feedback(eval_id, rating, fault) ==
    /\ eval_logs' = IF fault = "none" THEN update_eval_rating(eval_logs, eval_id, rating)
                    ELSE eval_logs
    /\ call' = [handler |-> "feedback", status |-> IF fault = "none" THEN 200 ELSE 500,
                fault |-> fault, audit |-> "skipped",
                write |-> [kind |-> "rating", eval_id |-> eval_id, rating |-> rating],
                file |-> NoFile, eval_id |-> eval_id]
    /\ UNCHANGED <<documents, chunks, audit_logs, spool, ncalls, drain, step, rows, sent, fn>>

(* POST /answer/stream: retrieval as /answer, no evaluation log. *)
AnswerStream(sess, hdr_org, role, keyword, top_k, filter_category, path, afault) ==
    LET n == ncalls + 1
        ctx == log_requests("/answer/stream", sess, hdr_org, role)
        k == IF top_k = 0 THEN 10 ELSE top_k
    IN /\ ncalls' = n
       /\ UNCHANGED <<documents, chunks, drain, step, eval_logs, fn>>
       /\ IF ctx.status # 200
          THEN /\ call' = Rejected("answer_stream", ctx.status)
               /\ NotSpooled
               /\ UNCHANGED <<audit_logs, rows>>
          ELSE \E found \in SearchRows(keyword, k, filter_category, hdr_org, path) :
               \E scores \in [DOMAIN found -> RerankScores] :
                 /\ rows' = Retrieved("answer_stream", sess, hdr_org,
                                      Limit(rerank_passages(found, scores), k))
                 /\ NotSpooled
                 /\ audit_logs' = audit_event(audit_logs, n, "answer_stream", ctx, afault)
                 /\ call' = [handler |-> "answer_stream", status |-> 200, fault |-> "none",
                             audit |-> afault, write |-> NoWrite, file |-> NoFile,
                             eval_id |-> NoFile]

(* POST /share/pdf: retrieval without rerank (the share_links row it then *)
(* inserts is outside the modelled tables).                               *)
SharePdf(sess, hdr_org, role, keyword, top_k, filter_category, path, afault) ==
    LET n == ncalls + 1
        ctx == log_requests("/share/pdf", sess, hdr_org, role)
        k == IF top_k = 0 THEN 10 ELSE top_k
    IN /\ ncalls' = n
       /\ UNCHANGED <<documents, chunks, drain, step, eval_logs, fn>>
       /\ IF ctx.status # 200 \/ ~is_allowed(ctx.role, {"analyst", "editor", "viewer"})
          THEN /\ call' = Rejected("share_pdf", IF ctx.status # 200 THEN ctx.status ELSE 403)
               /\ NotSpooled
               /\ UNCHANGED <<audit_logs, rows>>
          ELSE \E found \in SearchRows(keyword, k, filter_category, hdr_org, path) :
                 /\ rows' = Retrieved("share_pdf", sess, hdr_org, found)
                 /\ NotSpooled
                 /\ audit_logs' = audit_event(audit_logs, n, "share_pdf", ctx, afault)
                 /\ call' = [handler |-> "share_pdf", status |-> 200, fault |-> "none",
                             audit |-> afault, write |-> NoWrite, file |-> NoFile,
                             eval_id |-> NoFile]

(* ------------------------------------------------------------------ *)
(* Direct use of the spool and of the search functions                 *)
(* ------------------------------------------------------------------ *)
(* The write a spooled record stands for when it is handed to            *)
(* _spool_write directly: the one its own fields describe.               *)
WriteOf(record) ==
    CASE Get(record, "type") = "ingest" /\ {"doc_id", "title", "rows"} \subseteq DOMAIN record ->
            [kind |-> "ingest", doc_id |-> record.doc_id, title |-> record.title,
             meta |-> Get(record, "meta"), org_id |-> Get(record, "org_id"),
             user_id |-> None, rows |-> record.rows]
      [] Get(record, "type") \in {"eval_log", "audit_log"} /\ "row" \in DOMAIN record ->
            [kind |-> record.type, row |-> record.row]
      [] OTHER -> NoWrite

(* spool_write(record): _spool_write called with a record of its caller. *)
SpoolWriteCall(record) ==
    /\ ncalls' = ncalls + 1
    /\ Spooled(ncalls + 1, record, WriteOf(record))
    /\ call' = [handler |-> "spool_write", status |-> 200, fault |-> "none",
                audit |-> "skipped", write |-> WriteOf(record),
                file |-> Uuid(ncalls + 1, "file"), eval_id |-> NoFile]
    /\ UNCHANGED <<documents, chunks, eval_logs, audit_logs, drain, step, rows, fn>>

(* _spool_write cut short after open(path, "w"): the file exists and its *)
(* text does not decode.                                                  *)
SpoolWriteCut ==
    /\ ncalls' = ncalls + 1
    /\ spool' = Put(spool, Uuid(ncalls + 1, "file"), GarbageFile)
    /\ call' = [handler |-> "spool_write_cut", status |-> 0, fault |-> "none",
                audit |-> "skipped", write |-> NoWrite,
                file |-> Uuid(ncalls + 1, "file"), eval_id |-> NoFile]
    /\ UNCHANGED <<documents, chunks, eval_logs, audit_logs, drain, step, rows, sent, fn>>

(* _spool_write in a handler's thread, in two steps the drain loop may   *)
(* run between. open(path, "w") creates <uuid4>.json empty; the text     *)
(* reaches the file when the buffer is flushed, at the latest when the   *)
(* with block closes it. Until then the file's text does not decode to   *)
(* the record.                                                           *)
SpoolWriteOpen(record) ==
    /\ call.handler # "spool_write_open"
    /\ ncalls' = ncalls + 1
    /\ spool' = Put(spool, Uuid(ncalls + 1, "file"), GarbageFile)
    /\ sent' = Put(sent, Uuid(ncalls + 1, "file"),
                   [record |-> record, write |-> WriteOf(record)])
    /\ call' = [handler |-> "spool_write_open", status |-> 0, fault |-> "none",
                audit |-> "skipped", write |-> WriteOf(record),
                file |-> Uuid(ncalls + 1, "file"), eval_id |-> NoFile]
    /\ UNCHANGED <<documents, chunks, eval_logs, audit_logs, drain, step, rows, fn>>

(* The with block closes the file: the text is complete. When the path   *)
(* was removed meanwhile the text goes to the unlinked file and the      *)
(* directory does not get it back.                                       *)
SpoolWriteClose ==
    /\ call.handler = "spool_write_open"
    /\ spool' = IF call.file \in DOMAIN spool
                THEN Put(spool, call.file, FileOf(sent[call.file].record))
                ELSE spool
    /\ call' = [call EXCEPT !.handler = "spool_write", !.status = 200]
    /\ UNCHANGED <<documents, chunks, eval_logs, audit_logs, ncalls, drain, step, rows,
                   sent, fn>>

(* A search function of db.py called with a tenant scope. *)
Search(op, top_k, filter_category, org_id, path) ==
    /\ \E found \in
          CASE op = "knn_search" ->
                 knn_search(chunks, documents, top_k, filter_category, org_id)
            [] op = "hybrid_search" ->
                 hybrid_search(chunks, documents, top_k, filter_category, org_id, path)
            [] OTHER ->
                 hybrid_fusion_search(chunks, documents, top_k, filter_category, org_id, path) :
          rows' = [handler |-> op, caller |-> org_id, scope |-> org_id, out |-> found]
    /\ UNCHANGED <<documents, chunks, eval_logs, audit_logs, spool, ncalls, call, drain, step, sent, fn>>

(* ------------------------------------------------------------------ *)
(* Specifications                                                      *)
(* ------------------------------------------------------------------ *)
Empty == <<>>

(* No function has been called on its own and no reranker is loaded        *)
(* (_reranker = None); enabled is RERANK_ENABLED, true by default.          *)
NoFn == [op |-> "none", enabled |-> TRUE, reranker |-> None]

Init ==
    /\ documents = Empty
    /\ chunks = Empty
    /\ eval_logs = Empty
    /\ audit_logs = Empty
    /\ spool = Empty
    /\ sent = Empty
    /\ ncalls = 0
    /\ call = Rejected("none", 0)
    /\ drain = IdleDrain
    /\ step = NoStep
    /\ rows = [handler |-> "none", caller |-> None, scope |-> None, out |-> <<>>]
    /\ fn = NoFn

Session(org, user) == [org_id |-> org, user_id |-> user, valid |-> TRUE]

(* Records a caller hands to spool_write. *)
DirectRecords(n) ==
    LET doc_id == Uuid(n, "doc")
        rws == << <<Uuid(n, <<"chunk", 1>>), doc_id, 0, 0, 1>> >>
        erow == EvalRow(Uuid(n, "eval"), "query", "A", FALSE, 1, None)
        arow == [id |-> Uuid(n, "audit"), user_id |-> "u1", route |-> "query", org_id |-> "A"]
    IN {[type |-> "ingest", doc_id |-> doc_id, title |-> "t", meta |-> None,
         org_id |-> "A", rows |-> rws],
        [type |-> "eval_log", row |-> erow],
        [type |-> "audit_log", row |-> arow],
        [type |-> "other"],
        [type |-> "ingest", title |-> "t", rows |-> rws],
        [type |-> "ingest", doc_id |-> doc_id, title |-> "t"],
        [type |-> "eval_log"],
        [type |-> "audit_log"]}

(* The write path: handlers with storage faults, the spool, the drain loop. *)
Next ==
    \/ /\ ncalls < MaxCalls
       /\ \/ \E fault \in IngestFaults, afault \in {"none", "fail"} :
               IngestText(Session("A", "u1"), "A", "editor", None, << <<0, 1>> >>, fault, afault)
          \/ \E fault \in EvalFaults :
               Query(Session("A", "u1"), "A", "viewer", FALSE, 1, None, "fulltext", fault, "none")
          \/ \E fault \in EvalFaults :
               Answer(Session("A", "u1"), "A", "viewer", FALSE, 1, None, "fulltext", fault, "none")
          \/ \E fault \in EvalFaults :
               ExportPdf(Session("A", "u1"), "A", "viewer", 1, None, fault, "none")
    \/ DrainStart
    \/ \E name \in drain.pending, fault \in DrainFaults : DrainStep(name, fault)
    \/ DrainEnd

Spec == Init /\ [][Next]_vars

(* The spool on its own: records handed to spool_write, files cut short,  *)
(* the drain loop with storage faults.                                    *)
NextSpool ==
    \/ /\ ncalls < MaxCalls
       /\ \/ \E record \in DirectRecords(ncalls + 1) : SpoolWriteCall(record)
          \/ SpoolWriteCut
    \/ DrainStart
    \/ \E name \in drain.pending, fault \in DrainFaults : DrainStep(name, fault)
    \/ DrainEnd

SpecSpool == Init /\ [][NextSpool]_vars

(* The drain loop with primary storage available: handlers have spooled *)
(* records while storage calls failed (a failing conn.close() is a write *)
(* that committed before the connection broke); every statement of the   *)
(* drain loop's replays reaches storage, and the loop, a task that wakes *)
(* every SPOOL_DRAIN_SECS, keeps running.                                *)
NextLive ==
    \/ /\ ncalls < MaxCalls
       /\ \E fault \in IngestFaults :
            IngestText(Session("A", "u1"), "A", "editor", None, << <<0, 1>> >>, fault, "none")
    \/ /\ ncalls < MaxCalls
       /\ \E fault \in EvalFaults :
            Answer(Session("A", "u1"), "A", "viewer", FALSE, 1, None, "fulltext", fault, "none")
    \/ DrainStart
    \/ \E name \in drain.pending : DrainStep(name, "none")
    \/ DrainEnd

SpecLive ==
    /\ Init /\ [][NextLive]_vars
    /\ WF_vars(DrainStart)
    /\ WF_vars(\E name \in drain.pending : DrainStep(name, "none"))
    /\ WF_vars(DrainEnd)

(* /answer with storage faults, /feedback on the eval_id the answer just *)
(* returned, and the drain loop.                                         *)
NextFeedback ==
    \/ /\ ncalls < MaxCalls
       /\ \E fault \in EvalFaults :
            Answer(Session("A", "u1"), "A", "viewer", FALSE, 1, None, "fulltext", fault, "none")
    \/ /\ call.handler = "answer" /\ call.status = 200
       /\ \E rating \in Ratings, fault \in {"none", "conn"} :
            Feedback(call.eval_id, rating, fault)
    \/ DrainStart
    \/ \E name \in drain.pending, fault \in {"none", "conn"} : DrainStep(name, fault)
    \/ DrainEnd

SpecFeedback == Init /\ [][NextFeedback]_vars

(* Handlers' threads writing to the spool while the drain loop runs on   *)
(* the event loop.                                                       *)
NextSpoolThreads ==
    \/ /\ ncalls < MaxCalls
       /\ \E record \in DirectRecords(ncalls + 1) : SpoolWriteOpen(record)
    \/ SpoolWriteClose
    \/ DrainStart
    \/ \E name \in drain.pending, fault \in DrainFaults : DrainStep(name, fault)
    \/ DrainEnd

SpecSpoolThreads == Init /\ [][NextSpoolThreads]_vars

(* The read path: a store filled by ingestion for two tenants, then one   *)
(* retrieval (a retrieval reads documents and chunks only, so it does not *)
(* depend on the retrievals before it).                                   *)
OptCategories == Categories \cup {None}

ChunkAttrs == [1..1 -> KwCounts \X Dists]

(* keyword given or not, and the statement of hybrid_search that answers *)
KeywordPaths == {<<FALSE, "fulltext">>, <<TRUE, "fulltext">>, <<TRUE, "like">>}

(* no retrieval has been made yet in this behaviour *)
NoRetrievalYet == rows.handler = "none"

Fill ==
    /\ NoRetrievalYet /\ ncalls < MaxDocs
    /\ \E org \in Orgs, meta \in OptCategories, attrs \in ChunkAttrs :
         IngestText(Session(org, "u1"), org, "editor", meta, attrs, "none", "none")

(* The three search operations of db.py called directly. *)
NextSearch ==
    \/ Fill
    \/ \E top_k \in TopKs, cat \in OptCategories, org \in Orgs \cup {None} :
         /\ NoRetrievalYet
         /\ Search("knn_search", top_k, cat, org, "fulltext")
    \/ \E top_k \in TopKs, cat \in OptCategories, org \in Orgs \cup {None}, path \in {"fulltext", "like"} :
         /\ NoRetrievalYet
         /\ Search("hybrid_search", top_k, cat, org, path)
    \/ \E top_k \in TopKs, cat \in OptCategories, org \in Orgs \cup {None}, path \in {"fulltext", "like"} :
         /\ NoRetrievalYet
         /\ Search("hybrid_fusion_search", top_k, cat, org, path)

SpecSearch == Init /\ [][NextSearch]_vars

(* QueryReq declares top_k: int = 10 with no constraint: a request body   *)
(* may carry a top_k below 1.                                             *)
TopKsBelowOne == {0}

(* The retrieval endpoints. The caller's session is tenant "A"'s; the     *)
(* X-Org-Id header is absent or names either tenant.                      *)
NextRetrieve ==
    \/ Fill
    \/ \E hdr \in Orgs \cup {None}, top_k \in TopKsBelowOne, cat \in OptCategories, kp \in KeywordPaths :
         /\ NoRetrievalYet
         /\ Query(Session("A", "u1"), hdr, "viewer", kp[1], top_k, cat, kp[2], "none", "none")
    \/ \E hdr \in Orgs \cup {None}, top_k \in TopKs, cat \in OptCategories, kp \in KeywordPaths :
         /\ NoRetrievalYet
         /\ Query(Session("A", "u1"), hdr, "viewer", kp[1], top_k, cat, kp[2], "none", "none")
    \/ \E hdr \in Orgs \cup {None}, top_k \in TopKs, cat \in OptCategories, kp \in KeywordPaths :
         /\ NoRetrievalYet
         /\ Answer(Session("A", "u1"), hdr, "viewer", kp[1], top_k, cat, kp[2], "none", "none")
    \/ \E hdr \in Orgs \cup {None}, top_k \in TopKs, cat \in OptCategories, kp \in KeywordPaths :
         /\ NoRetrievalYet
         /\ AnswerStream(Session("A", "u1"), hdr, "viewer", kp[1], top_k, cat, kp[2], "none")
    \/ \E hdr \in Orgs \cup {None}, top_k \in TopKs, cat \in OptCategories, kp \in KeywordPaths :
         /\ NoRetrievalYet
         /\ SharePdf(Session("A", "u1"), hdr, "viewer", kp[1], top_k, cat, kp[2], "none")
    \/ \E hdr \in Orgs \cup {None}, top_k \in TopKs, cat \in OptCategories :
         /\ NoRetrievalYet
         /\ ExportPdf(Session("A", "u1"), hdr, "viewer", top_k, cat, "none", "none")

SpecRetrieve == Init /\ [][NextRetrieve]_vars

(* hybrid_fusion_search when statements fail. ft is the full-text        *)
(* statement that answered ("fulltext", "like", or "none" when both      *)
(* raised: ft_rows = []); vec_ok is whether knn_search returned. The     *)
(* call of knn_search is outside any try, so its exception leaves the    *)
(* function.                                                             *)
fusion_outcomes(ch, docs, top_k, filter_category, org_id, ft, vec_ok) ==
    IF ~vec_ok THEN {[raised |-> TRUE, out |-> <<>>]}
    ELSE {[raised |-> FALSE, out |-> found] :
            found \in hybrid_fusion_search(ch, docs, top_k, filter_category, org_id, ft)}

FtOutcomes == {"fulltext", "like", "none"}

FusionCall ==
    /\ fn.op = "none"
    /\ \E top_k \in TopKs, cat \in OptCategories, org \in Orgs \cup {None},
          ft \in FtOutcomes, vec_ok \in BOOLEAN :
         \E r \in fusion_outcomes(chunks, documents, top_k, cat, org, ft, vec_ok) :
            fn' = [op |-> "hybrid_fusion_search", enabled |-> fn.enabled,
                   reranker |-> fn.reranker, top_k |-> top_k, filter_category |-> cat,
                   org_id |-> org, ft |-> ft, vec_ok |-> vec_ok,
                   raised |-> r.raised, out |-> r.out]
    /\ UNCHANGED <<documents, chunks, eval_logs, audit_logs, spool, ncalls, call, drain,
                   step, rows, sent>>

(* A store filled by ingestion, then one call of hybrid_fusion_search    *)
(* whose statements may fail.                                            *)
NextDegrade ==
    \/ /\ fn.op = "none"
       /\ Fill
    \/ FusionCall

SpecDegrade == Init /\ [][NextDegrade]_vars

(* The middleware's and the handlers' role checks: requests with any     *)
(* X-Role header, with or without a valid session.                       *)
Sessions == {Session("A", "u1"), NoSession}

NextRoles ==
    \/ /\ ncalls < MaxCalls
       /\ \E sess \in Sessions, role \in Roles, fault \in {"none", "conn"},
             afault \in {"none", "fail"} :
            DebugSchema(sess, "A", role, fault, afault)
    \/ /\ ncalls < MaxCalls
       /\ \E sess \in Sessions, role \in Roles :
            Query(sess, "A", role, FALSE, 1, None, "fulltext", "none", "none")
    \/ /\ ncalls < MaxCalls
       /\ \E sess \in Sessions, role \in Roles :
            IngestText(sess, "A", role, None, << <<0, 1>> >>, "none", "none")

SpecRoles == Init /\ [][NextRoles]_vars

(* ------------------------------------------------------------------ *)
(* The cross-encoder reranker (embeddings.py)                          *)
(* ------------------------------------------------------------------ *)
NeutralScores(n) == [i \in 1..n |-> 0]

(* get_reranker: None when RERANK_ENABLED is off; otherwise the cached   *)
(* model, loaded on first use; a failed load leaves the cache empty.     *)
(* ret is the value returned, cached the module's _reranker afterwards.  *)
get_reranker(enabled, reranker, load_ok) ==
    IF ~enabled THEN [ret |-> None, cached |-> reranker]
    ELSE IF reranker = None
         THEN IF load_ok THEN [ret |-> "loaded", cached |-> "loaded"]
                         ELSE [ret |-> None, cached |-> None]
         ELSE [ret |-> reranker, cached |-> reranker]

(* score_pairs with the exception of predict left to the caller. *)
score_pairs_uncaught(enabled, reranker, load_ok, predict, n) ==
    LET g == get_reranker(enabled, reranker, load_ok)
    IN IF g.ret = None
       THEN [out |-> NeutralScores(n), reranker |-> g.cached, used |-> FALSE, raised |-> FALSE]
       ELSE IF predict.raises
            THEN [out |-> <<>>, reranker |-> g.cached, used |-> TRUE, raised |-> TRUE]
            ELSE [out |-> predict.scores, reranker |-> g.cached, used |-> TRUE, raised |-> FALSE]

(* score_pairs on n passages; predict tells whether the model raises    *)
(* and the scores it gives otherwise. used: the model was asked;         *)
(* raised: the call raised.                                              *)
score_pairs(enabled, reranker, load_ok, predict, n) ==
    LET g == get_reranker(enabled, reranker, load_ok)
    IN IF g.ret = None
       THEN [out |-> NeutralScores(n), reranker |-> g.cached, used |-> FALSE, raised |-> FALSE]
       ELSE IF predict.raises
            THEN [out |-> NeutralScores(n), reranker |-> g.cached, used |-> TRUE, raised |-> FALSE]
            ELSE [out |-> predict.scores, reranker |-> g.cached, used |-> TRUE, raised |-> FALSE]

(* ------------------------------------------------------------------ *)
(* Embeddings (embeddings.py)                                          *)
(* ------------------------------------------------------------------ *)
(* _deterministic_embed_text: a vector of dim components derived from    *)
(* the text's hash (here the text's number).                             *)
_deterministic_embed_text(text, dim) == [i \in 1..dim |-> 10 + text]

(* One row of the model's output brought to target components:           *)
(* v[:, :target] when longer, np.zeros appended when shorter.            *)
AdjustRow(row, target) ==
    IF Len(row) = target THEN row
    ELSE IF Len(row) > target THEN SubSeq(row, 1, target)
    ELSE row \o [i \in 1..(target - Len(row)) |-> 0]

(* embed_texts(texts): encoded is what m.encode returns (one row per     *)
(* text), model_ok whether get_model and encode returned, target is      *)
(* get_embed_dim(). The result is the array returned; nothing is raised. *)
embed_texts(texts, force_offline, model_ok, encoded, target) ==
    IF ~force_offline /\ model_ok
    THEN [i \in DOMAIN encoded |-> AdjustRow(encoded[i], target)]
    ELSE [i \in DOMAIN texts |-> _deterministic_embed_text(texts[i], target)]

(* ------------------------------------------------------------------ *)
(* Lazily built models under threads (embeddings.py)                   *)
(* ------------------------------------------------------------------ *)
(* get_model and get_reranker (RERANK_ENABLED on, load succeeding) from  *)
(* the worker threads of sync handlers: "if _model is None:" reads the   *)
(* global, the constructor runs and its result is stored, "return        *)
(* _model" reads the global again. Neither function takes a lock.        *)
(* Instances are numbered from 1 in the order built; 0 is None.          *)
Threads == {1, 2, 3}

LazyFunctions == {"get_model", "get_reranker"}

LazyStart ==
    /\ fn.op = "none"
    /\ \E which \in LazyFunctions :
         fn' = [op |-> "lazy", enabled |-> fn.enabled, reranker |-> fn.reranker,
                which |-> which, cache |-> 0, built |-> 0,
                pc |-> [t \in Threads |-> "idle"], got |-> [t \in Threads |-> 0]]
    /\ UNCHANGED <<documents, chunks, eval_logs, audit_logs, spool, ncalls, call, drain,
                   step, rows, sent>>

(* "if _model is None" *)
LazyCheck(t) ==
    /\ fn.op = "lazy"
    /\ fn.pc[t] = "idle"
    /\ fn' = [fn EXCEPT !.pc[t] = IF fn.cache = 0 THEN "build" ELSE "return"]
    /\ UNCHANGED <<documents, chunks, eval_logs, audit_logs, spool, ncalls, call, drain,
                   step, rows, sent>>

(* "_model = SentenceTransformer(name)" / "_reranker = CrossEncoder(...)" *)
LazyBuild(t) ==
    /\ fn.op = "lazy"
    /\ fn.pc[t] = "build"
    /\ fn' = [fn EXCEPT !.pc[t] = "return", !.built = @ + 1, !.cache = fn.built + 1]
    /\ UNCHANGED <<documents, chunks, eval_logs, audit_logs, spool, ncalls, call, drain,
                   step, rows, sent>>

(* "return _model" *)
LazyReturn(t) ==
    /\ fn.op = "lazy"
    /\ fn.pc[t] = "return"
    /\ fn' = [fn EXCEPT !.pc[t] = "done", !.got[t] = fn.cache]
    /\ UNCHANGED <<documents, chunks, eval_logs, audit_logs, spool, ncalls, call, drain,
                   step, rows, sent>>

NextLazy ==
    \/ LazyStart
    \/ \E t \in Threads : LazyCheck(t)
    \/ \E t \in Threads : LazyBuild(t)
    \/ \E t \in Threads : LazyReturn(t)

SpecLazy == Init /\ [][NextLazy]_vars

(* ------------------------------------------------------------------ *)
(* The rate limiter of /mcp/invoke under threads (main.py)             *)
(* ------------------------------------------------------------------ *)
(* _rate_limit_allow(key) called by mcp_invoke, a sync handler, from     *)
(* worker threads, with no lock. _RL_BUCKETS maps a key to a deque; the  *)
(* deques are objects (heap, numbered from 1; 0 is "no bucket"), and a   *)
(* thread keeps its own reference q, its key and its now.                *)
MCP_MAX_PER_MIN == 1   \* MCP_RL_PER_MIN (60 by default), taken small

RlThreads == {1, 2}

RlKeys == {"A:ask", "B:ask"}

RlCalls == 3      \* calls of _rate_limit_allow in a behaviour

RlTick == 40      \* seconds the clock advances by

RlHorizon == 80   \* the clock stops there

NoBuckets == [k \in RlKeys |-> 0]

RlUnchanged ==
    UNCHANGED <<documents, chunks, eval_logs, audit_logs, spool, ncalls, call, drain,
                step, rows, sent>>

RlStart ==
    /\ fn.op = "none"
    /\ fn' = [op |-> "rate_limit", enabled |-> fn.enabled, reranker |-> fn.reranker,
              buckets |-> NoBuckets, heap |-> <<>>, clock |-> 0, calls |-> 0,
              pc |-> [t \in RlThreads |-> "idle"], key |-> [t \in RlThreads |-> "A:ask"],
              now |-> [t \in RlThreads |-> 0], q |-> [t \in RlThreads |-> 0],
              admitted |-> <<>>, raised |-> FALSE]
    /\ RlUnchanged

(* time passes *)
RlClock ==
    /\ fn.op = "rate_limit"
    /\ fn.clock < RlHorizon
    /\ fn' = [fn EXCEPT !.clock = @ + RlTick]
    /\ RlUnchanged

(* "now = time.time()" *)
RlEnter(t, key) ==
    /\ fn.op = "rate_limit"
    /\ fn.pc[t] = "idle"
    /\ fn.calls < RlCalls
    /\ fn' = [fn EXCEPT !.pc[t] = "get", !.key[t] = key, !.now[t] = fn.clock,
                        !.calls = @ + 1]
    /\ RlUnchanged

(* "q = _RL_BUCKETS.get(key)" *)
RlGet(t) ==
    /\ fn.op = "rate_limit"
    /\ fn.pc[t] = "get"
    /\ fn' = [fn EXCEPT !.q[t] = fn.buckets[fn.key[t]],
                        !.pc[t] = IF fn.buckets[fn.key[t]] = 0 THEN "create" ELSE "evict"]
    /\ RlUnchanged

(* "q = deque(); _RL_BUCKETS[key] = q" *)
RlCreate(t) ==
    /\ fn.op = "rate_limit"
    /\ fn.pc[t] = "create"
    /\ fn' = [fn EXCEPT !.heap = Append(@, <<>>), !.q[t] = Len(fn.heap) + 1,
                        !.buckets[fn.key[t]] = Len(fn.heap) + 1, !.pc[t] = "evict"]
    /\ RlUnchanged

(* "while q and (now - q[0]) > window" *)
RlEvict(t) ==
    /\ fn.op = "rate_limit"
    /\ fn.pc[t] = "evict"
    /\ LET d == fn.heap[fn.q[t]]
       IN fn' = [fn EXCEPT !.pc[t] = IF d # <<>> /\ fn.now[t] - Head(d) > 60
                                     THEN "pop" ELSE "check"]
    /\ RlUnchanged

(* "q.popleft()": IndexError on an empty deque, which mcp_invoke's       *)
(* except clause turns into a 500.                                       *)
RlPop(t) ==
    /\ fn.op = "rate_limit"
    /\ fn.pc[t] = "pop"
    /\ LET d == fn.heap[fn.q[t]]
       IN fn' = IF d = <<>>
                THEN [fn EXCEPT !.pc[t] = "idle", !.raised = TRUE]
                ELSE [fn EXCEPT !.heap[fn.q[t]] = Tail(d), !.pc[t] = "evict"]
    /\ RlUnchanged

(* "if len(q) >= MCP_MAX_PER_MIN: return False" *)
RlCheck(t) ==
    /\ fn.op = "rate_limit"
    /\ fn.pc[t] = "check"
    /\ fn' = [fn EXCEPT !.pc[t] = IF Len(fn.heap[fn.q[t]]) >= MCP_MAX_PER_MIN
                                  THEN "idle" ELSE "append"]
    /\ RlUnchanged

(* "q.append(now); return True" *)
RlAppend(t) ==
    /\ fn.op = "rate_limit"
    /\ fn.pc[t] = "append"
    /\ fn' = [fn EXCEPT !.heap[fn.q[t]] = Append(@, fn.now[t]),
                        !.admitted = Append(@, <<fn.key[t], fn.now[t]>>),
                        !.pc[t] = "idle"]
    /\ RlUnchanged

NextRateLimit ==
    \/ RlStart
    \/ RlClock
    \/ \E t \in RlThreads, key \in RlKeys : RlEnter(t, key)
    \/ \E t \in RlThreads : RlGet(t)
    \/ \E t \in RlThreads : RlCreate(t)
    \/ \E t \in RlThreads : RlEvict(t)
    \/ \E t \in RlThreads : RlPop(t)
    \/ \E t \in RlThreads : RlCheck(t)
    \/ \E t \in RlThreads : RlAppend(t)

SpecRateLimit == Init /\ [][NextRateLimit]_vars

(* ------------------------------------------------------------------ *)
(* The event loop: background tasks and requests (main.py)             *)
(* ------------------------------------------------------------------ *)
(* startup_validation starts _spool_drain_loop and, when COMPACT_SECS >  *)
(* 0, _compact_loop with asyncio.create_task: coroutines of the server's *)
(* event loop. Their bodies call get_conn, the replay writes and         *)
(* compact_dedup_chunks directly; the only await is asyncio.sleep at the *)
(* end of a cycle, so a task holds the loop from its wake-up to its      *)
(* sleep. The loop also accepts connections, runs the log_requests       *)
(* middleware and sends responses; sync handlers run in worker threads.  *)
LoopRequests == 2   \* requests arriving in a behaviour

BackgroundTasks == {"drain", "compact"}

(* the steps of one cycle of a task, in order, ending in the sleep *)
Cycle(task) ==
    IF task = "drain" THEN <<"list", "connect", "replay", "close", "sleep">>
    ELSE <<"connect", "dedup", "close", "sleep">>

StorageSteps == {"connect", "replay", "dedup", "close"}

(* nothing runs on the loop: it can take the next ready callback *)
LoopFree == fn.holder = "none"

LoopUnchanged ==
    UNCHANGED <<documents, chunks, eval_logs, audit_logs, spool, ncalls, call, drain,
                step, rows, sent>>

LoopStart ==
    /\ fn.op = "none"
    /\ \E compact \in BOOLEAN :
         fn' = [op |-> "loop", enabled |-> fn.enabled, reranker |-> fn.reranker,
                compact |-> compact, holder |-> "none",
                at |-> [task \in BackgroundTasks |-> Len(Cycle(task))],
                stalled |-> FALSE, arrived |-> 0, waiting |-> 0, inflight |-> 0,
                served |-> 0]
    /\ LoopUnchanged

(* asyncio.sleep is over and the loop resumes the task *)
TaskWake(task) ==
    /\ fn.op = "loop" /\ LoopFree
    /\ task = "compact" => fn.compact
    /\ Cycle(task)[fn.at[task]] = "sleep"
    /\ fn' = [fn EXCEPT !.holder = task, !.at[task] = 1]
    /\ LoopUnchanged

(* the task's next statement; at "await asyncio.sleep" it yields *)
TaskStep(task) ==
    /\ fn.op = "loop" /\ fn.holder = task /\ ~fn.stalled
    /\ LET next == fn.at[task] + 1
       IN fn' = [fn EXCEPT !.at[task] = next,
                           !.holder = IF Cycle(task)[next] = "sleep" THEN "none" ELSE task]
    /\ LoopUnchanged

(* the storage operation the task is inside does not return *)
StorageStall(task) ==
    /\ fn.op = "loop" /\ fn.holder = task /\ ~fn.stalled
    /\ Cycle(task)[fn.at[task]] \in StorageSteps
    /\ fn' = [fn EXCEPT !.stalled = TRUE]
    /\ LoopUnchanged

(* a client connects and sends a request *)
RequestArrive ==
    /\ fn.op = "loop" /\ fn.arrived < LoopRequests
    /\ fn' = [fn EXCEPT !.arrived = @ + 1, !.waiting = @ + 1]
    /\ LoopUnchanged

(* the loop accepts the request and runs log_requests *)
RequestAccept ==
    /\ fn.op = "loop" /\ LoopFree /\ fn.waiting > 0
    /\ fn' = [fn EXCEPT !.holder = "request", !.waiting = @ - 1]
    /\ LoopUnchanged

(* call_next: the sync handler goes to a worker thread *)
RequestDispatch ==
    /\ fn.op = "loop" /\ fn.holder = "request"
    /\ fn' = [fn EXCEPT !.holder = "none", !.inflight = @ + 1]
    /\ LoopUnchanged

(* the handler returned and the loop sends the response *)
RequestRespond ==
    /\ fn.op = "loop" /\ LoopFree /\ fn.inflight > 0
    /\ fn' = [fn EXCEPT !.inflight = @ - 1, !.served = @ + 1]
    /\ LoopUnchanged

NextLoop ==
    \/ LoopStart
    \/ \E task \in BackgroundTasks : TaskWake(task)
    \/ \E task \in BackgroundTasks : TaskStep(task)
    \/ \E task \in BackgroundTasks : StorageStall(task)
    \/ RequestArrive
    \/ RequestAccept
    \/ RequestDispatch
    \/ RequestRespond

SpecLoop == Init /\ [][NextLoop]_vars

(* ------------------------------------------------------------------ *)
(* Storage connections (main.py)                                       *)
(* ------------------------------------------------------------------ *)
(* The statements of a logical operation that touch a connection, in    *)
(* order: "get_conn" acquires one, "use" runs a statement on it, "close" *)
(* is conn.close(), "lookup" is get_share_link, after which a missing    *)
(* row returns 404. An exception of get_conn or of a use leaves the      *)
(* operation through its except clause, none of which closes anything.   *)
(* query: conn = get_conn(); search; conn.close(); conn2 = get_conn();   *)
(* insert_eval_log; conn2.close().                                       *)
(* get_shared_pdf: get_share_link(get_conn(), share_id), whose           *)
(* connection has no name and is never closed; conn = get_conn();        *)
(* fetch_chunks_by_ids; conn.close().                                    *)
(* replay (ingest): conn = get_conn(); upsert_document; upsert_chunks;   *)
(* conn.close().                                                         *)
ConnOperations == {"query", "get_shared_pdf", "replay"}

ConnOps == 3   \* logical operations in a behaviour

Statements(operation) ==
    CASE operation = "query" -> <<"get_conn", "use", "close", "get_conn", "use", "close">>
      [] operation = "get_shared_pdf" -> <<"get_conn", "lookup", "get_conn", "use", "close">>
      [] OTHER -> <<"get_conn", "use", "use", "close">>

(* A handler or the drain loop starts a logical operation. *)
ConnBegin(operation) ==
    /\ fn.op \in {"none", "conn"}
    /\ fn.op = "conn" => fn.at = 0
    /\ ncalls < ConnOps
    /\ fn' = [op |-> "conn", enabled |-> fn.enabled, reranker |-> fn.reranker,
              operation |-> operation, at |-> 1,
              open |-> IF fn.op = "conn" THEN fn.open ELSE 0]
    /\ ncalls' = ncalls + 1
    /\ UNCHANGED <<documents, chunks, eval_logs, audit_logs, spool, call, drain,
                   step, rows, sent>>

(* The operation's next statement returns (at = 0: the operation ended). *)
ConnStep(found) ==
    /\ fn.op = "conn" /\ fn.at > 0
    /\ LET stmt == Statements(fn.operation)[fn.at]
           last == fn.at = Len(Statements(fn.operation))
       IN /\ (stmt # "lookup") => found
          /\ fn' = [fn EXCEPT
                      !.open = IF stmt = "get_conn" THEN @ + 1
                               ELSE IF stmt = "close" THEN @ - 1 ELSE @,
                      !.at = IF last \/ ~found THEN 0 ELSE @ + 1]
    /\ UNCHANGED <<documents, chunks, eval_logs, audit_logs, spool, ncalls, call, drain,
                   step, rows, sent>>

(* get_conn or the statement using the connection raises: the except     *)
(* clause answers 500 (handlers) or continues (drain loop).              *)
ConnRaise ==
    /\ fn.op = "conn" /\ fn.at > 0
    /\ Statements(fn.operation)[fn.at] \in {"get_conn", "use", "lookup"}
    /\ fn' = [fn EXCEPT !.at = 0]
    /\ UNCHANGED <<documents, chunks, eval_logs, audit_logs, spool, ncalls, call, drain,
                   step, rows, sent>>

NextConn ==
    \/ \E operation \in ConnOperations : ConnBegin(operation)
    \/ \E found \in BOOLEAN : ConnStep(found)
    \/ ConnRaise

SpecConn == Init /\ [][NextConn]_vars

(* ------------------------------------------------------------------ *)
(* Chunking (chunk.py)                                                 *)
(* ------------------------------------------------------------------ *)
(* tokens[i:j] of Python: a negative index counts from the end, both     *)
(* ends are clamped to the list, an empty range is the empty list.       *)
(* Positions are 0-based as in the code.                                 *)
PySlice(tokens, i, j) ==
    LET n == Len(tokens)
        lo == IF i < 0 THEN Max(0, n + i) ELSE Min(n, i)
        hi == IF j < 0 THEN Max(0, n + j) ELSE Min(n, j)
    IN IF lo < hi THEN SubSeq(tokens, lo + 1, hi) ELSE <<>>

(* The texts (as text.split() gives them: the tokens 1..n in order) and  *)
(* the chunk_size and chunk_overlap of a request body: IngestText        *)
(* declares both as int with no constraint.                              *)
TokenLists == {[k \in 1..n |-> k] : n \in 0..MaxTokens}

ChunkSizes == (0 - 1)..3

Overlaps == (0 - 1)..2

(* The chunks of res that are kept: a call that returns has appended at  *)
(* most one chunk per token. Of the chunks a longer run appends only the *)
(* parity of their number is kept (more), and a position below           *)
(* -MaxIterations is kept as -MaxIterations: the loop test is true and   *)
(* every slice is empty from there down.                                 *)
MaxIterations == MaxTokens + 2

ChunkUnchanged ==
    UNCHANGED <<documents, chunks, eval_logs, audit_logs, spool, ncalls, call, drain,
                step, rows, sent>>

(* make_chunks(text, chunk_size, overlap) up to "while i < len(tokens)". *)
MakeChunksCall ==
    /\ fn.op = "none"
    /\ \E tokens \in TokenLists, chunk_size \in ChunkSizes, overlap \in Overlaps :
         fn' = [op |-> "make_chunks", enabled |-> fn.enabled, reranker |-> fn.reranker,
                tokens |-> tokens, chunk_size |-> chunk_size, overlap |-> overlap,
                i |-> 0, res |-> <<>>, more |-> 0, returned |-> FALSE]
    /\ ChunkUnchanged

(* The loop test and one iteration of the body, or "return res". *)
MakeChunksStep ==
    /\ fn.op = "make_chunks" /\ ~fn.returned
    /\ LET n == Len(fn.tokens)
           j == Min(n, fn.i + fn.chunk_size)
           kept == Len(fn.res) < MaxIterations
           res == IF kept THEN Append(fn.res, PySlice(fn.tokens, fn.i, j)) ELSE fn.res
           more == IF kept THEN fn.more ELSE 1 - fn.more
       IN fn' = IF ~(fn.i < n) THEN [fn EXCEPT !.returned = TRUE]
                ELSE IF j = n THEN [fn EXCEPT !.res = res, !.more = more, !.returned = TRUE]
                ELSE [fn EXCEPT !.res = res, !.more = more,
                                !.i = Max(Max(fn.i + fn.chunk_size - fn.overlap, j),
                                          0 - MaxIterations)]
    /\ ChunkUnchanged

NextChunks ==
    \/ MakeChunksCall
    \/ MakeChunksStep

(* the interpreter keeps running the loop *)
SpecChunks == Init /\ [][NextChunks]_vars /\ WF_vars(MakeChunksStep)

(* ------------------------------------------------------------------ *)
(* Evidence heuristics (answer.py)                                     *)
(* ------------------------------------------------------------------ *)
(* A passage is [text |-> length of its text, dist |-> its distance in  *)
(* hundredths].                                                         *)
RECURSIVE SumText(_)
SumText(ps) == IF ps = <<>> THEN 0 ELSE Head(ps).text + SumText(Tail(ps))

RECURSIVE SumDist(_)
SumDist(ps) == IF ps = <<>> THEN 0 ELSE Head(ps).dist + SumDist(Tail(ps))

(* The sufficiency test with the length bound taken inclusive. *)
assess_inclusive(passages) ==
    IF passages = <<>> THEN TRUE
    ELSE IF SumText(Limit(passages, 3)) <= 250 THEN TRUE
    ELSE SumDist(passages) > 35 * Len(passages)

(* assess_evidence_sufficiency: True when the evidence is insufficient.  *)
(* avg_distance > 0.35 is sum > 35 * len in hundredths.                  *)
assess_evidence_sufficiency(passages) ==
    IF passages = <<>> THEN TRUE
    ELSE IF SumText(Limit(passages, 3)) < 250 THEN TRUE
    ELSE IF Len(passages) > 0 /\ SumDist(passages) > 35 * Len(passages) THEN TRUE
    ELSE FALSE

(* round(x, 3) of x = num / den >= 0, in thousandths (num is in          *)
(* thousandths already): the nearest integer, a half going to the even   *)
(* one.                                                                   *)
Round3(num, den) ==
    LET q == num \div den
        r == num % den
    IN IF 2 * r < den THEN q
       ELSE IF 2 * r > den THEN q + 1
       ELSE IF q % 2 = 0 THEN q ELSE q + 1

(* The confidence without the clamp of the proximity term. *)
confidence_unclamped(passages) ==
    IF passages = <<>> THEN 0
    ELSE LET n == Len(passages)
             tc == Min(SumText(Limit(passages, 5)), 1500)
             pn == 100 * n - SumDist(passages)
         IN Round3(2 * tc * n + 20 * pn, 5 * n)

(* estimate_confidence, in thousandths: 0.6 * coverage + 0.4 * proximity *)
(* with coverage = tc / 1500 and proximity = pn / (100 * n), that is     *)
(* (2 * tc * n + 20 * pn) / (5 * n) thousandths.                         *)
estimate_confidence(passages) ==
    IF passages = <<>> THEN 0
    ELSE LET n == Len(passages)
             total_chars == SumText(Limit(passages, 5))
             tc == Max(0, Min(1500, total_chars))
             pn == Max(0, Min(100 * n, 100 * n - SumDist(passages)))
         IN Round3(2 * tc * n + 20 * pn, 5 * n)

(* ------------------------------------------------------------------ *)
(* Functions called on their own, on inputs drawn from bounded sets    *)
(* ------------------------------------------------------------------ *)
(* Every ranking of distinct ids of S: the rows a query may return. *)
Rankings(S) ==
    UNION {{q \in [1..n -> S] : Injective(q)} : n \in 0..Cardinality(S)}

FuseIds == 1..MaxIds

RrfKs == {1, 2, 60}     \* max(1, HYBRID_RRF_K) for some settings of HYBRID_RRF_K

(* The chunks the rankings name: id -> row, the distance alternating 2, 1. *)
FuseChunks ==
    [c \in FuseIds |->
       [doc_id |-> c, ord |-> 0, org_id |-> "A", kw |-> 1, dist |-> 1 + (c % 2)]]

(* Steps 3-5 of hybrid_fusion_search on a full-text ranking and a vector *)
(* ranking of its own.                                                    *)
FuseCall ==
    /\ fn.op = "none"
    /\ \E ft_ids \in Rankings(FuseIds), vec_ids \in Rankings(FuseIds),
          rrf_k \in RrfKs, top_k \in TopKs :
         \E out \in Fuse(FuseChunks, ft_ids, RowsOf(FuseChunks, vec_ids), top_k, rrf_k) :
            fn' = [op |-> "fuse", enabled |-> fn.enabled, reranker |-> fn.reranker,
                   ft_ids |-> ft_ids, vec_ids |-> vec_ids, rrf_k |-> rrf_k,
                   top_k |-> top_k, out |-> out]
    /\ UNCHANGED <<documents, chunks, eval_logs, audit_logs, spool, ncalls, call, drain,
                   step, rows, sent>>

(* The passages the heuristics are called on. *)
EvidenceKinds ==
    {[text |-> 83, dist |-> 34], [text |-> 84, dist |-> 36],
     [text |-> 400, dist |-> 0 - 50], [text |-> 400, dist |-> 150]}

PassageLists == UNION {[1..n -> EvidenceKinds] : n \in 0..MaxPassages}

AssessCall ==
    /\ fn.op = "none"
    /\ \E passages \in PassageLists :
         fn' = [op |-> "assess", enabled |-> fn.enabled, reranker |-> fn.reranker,
                passages |-> passages, out |-> assess_evidence_sufficiency(passages)]
    /\ UNCHANGED <<documents, chunks, eval_logs, audit_logs, spool, ncalls, call, drain,
                   step, rows, sent>>

ConfidenceCall ==
    /\ fn.op = "none"
    /\ \E passages \in PassageLists :
         fn' = [op |-> "confidence", enabled |-> fn.enabled, reranker |-> fn.reranker,
                passages |-> passages, out |-> estimate_confidence(passages)]
    /\ UNCHANGED <<documents, chunks, eval_logs, audit_logs, spool, ncalls, call, drain,
                   step, rows, sent>>

(* Calls of score_pairs in one process, one after the other. The first  *)
(* call fixes RERANK_ENABLED, which the module reads once at import.     *)
PairCounts == 0..2

ScorePairsCall ==
    /\ fn.op \in {"none", "score"}
    /\ ncalls < MaxCalls
    /\ \E enabled \in (IF fn.op = "none" THEN BOOLEAN ELSE {fn.enabled}),
          load_ok \in BOOLEAN, n \in PairCounts :
         \E predict \in [raises : BOOLEAN, scores : [1..n -> RerankScores]] :
            LET r == score_pairs(enabled, fn.reranker, load_ok, predict, n)
            IN fn' = [op |-> "score", enabled |-> enabled, reranker |-> r.reranker,
                      was |-> fn.reranker, load_ok |-> load_ok, predict |-> predict, n |-> n,
                      out |-> r.out, used |-> r.used, raised |-> r.raised,
                      after_failure |-> fn.op = "score" /\ fn.used /\ fn.predict.raises]
    /\ ncalls' = ncalls + 1
    /\ UNCHANGED <<documents, chunks, eval_logs, audit_logs, spool, call, drain,
                   step, rows, sent>>

(* Dimensions: what the model produces, and what get_embed_dim() gives. *)
ModelDims == {1, 2, 3}

EmbedDims == {2}

Components == {1, 2}

EmbedCall ==
    /\ fn.op = "none"
    /\ \E force_offline \in BOOLEAN, model_ok \in BOOLEAN, cur \in ModelDims, target \in EmbedDims :
         \E encoded \in [1..1 -> [1..cur -> Components]] :
            fn' = [op |-> "embed", enabled |-> fn.enabled, reranker |-> fn.reranker,
                   force_offline |-> force_offline, model_ok |-> model_ok,
                   encoded |-> encoded, target |-> target, raised |-> FALSE,
                   out |-> embed_texts(<<1>>, force_offline, model_ok, encoded, target)]
    /\ UNCHANGED <<documents, chunks, eval_logs, audit_logs, spool, ncalls, call, drain,
                   step, rows, sent>>

NextPure ==
    \/ FuseCall
    \/ AssessCall
    \/ ConfidenceCall
    \/ ScorePairsCall
    \/ EmbedCall

SpecPure == Init /\ [][NextPure]_vars

(* ------------------------------------------------------------------ *)
(* Properties                                                          *)
(* ------------------------------------------------------------------ *)
(* The keys the replay of a record of each type subscripts (rec["..."]). *)
Required(rtype) ==
    CASE rtype = "ingest" -> {"doc_id", "title", "rows"}
      [] rtype \in {"eval_log", "audit_log"} -> {"row"}
      [] OTHER -> {}

(* A decoded record of a recognized type that carries what its replay needs. *)
WellFormed(rec) ==
    /\ ~Falsy(rec)
    /\ Get(rec, "type") \in RecognizedTypes
    /\ Required(rec.type) \subseteq DOMAIN rec

(* The records the drain loop handles in a step: those leaving the listing. *)
Handled == drain.pending \ drain'.pending

RetrievalEndpoints == {"query", "answer", "answer_stream", "export_pdf", "share_pdf"}

SearchFunctions == {"knn_search", "hybrid_search", "hybrid_fusion_search"}

(* C1: an ingest_text call whose write against primary storage fails     *)
(* (get_conn, upsert_document or upsert_chunks raises) has spooled an     *)
(* 'ingest' record with doc_id, title, meta, org_id and every chunk row,  *)
(* and answers with its normal success response.                          *)
C1_IngestFailureIsSpooled ==
    (call.handler = "ingest_text" /\ call.fault \in {"conn", "doc", "chunks"}) =>
        /\ call.status = 200
        /\ call.file \in DOMAIN sent
        /\ sent[call.file].record =
             [type |-> "ingest", doc_id |-> call.write.doc_id, title |-> call.write.title,
              meta |-> call.write.meta, org_id |-> call.write.org_id,
              rows |-> call.write.rows]

(* C2: knn_search, hybrid_search and hybrid_fusion_search called with a   *)
(* tenant scope return only chunks of that tenant, for every top_k and    *)
(* category filter, on the full-text path and on the LIKE path.           *)
C2_ScopedSearchIsolated ==
    (rows.handler \in SearchFunctions /\ rows.scope \in Orgs) =>
        \A i \in DOMAIN rows.out :
            /\ rows.out[i].id \in DOMAIN chunks
            /\ chunks[rows.out[i].id].org_id = rows.scope

(* The fused search scoped to "A" returned a chunk while "B" owns a chunk *)
(* that matches the keyword and is at least as near to the query.         *)
C2_Witness ==
    /\ rows.handler = "hybrid_fusion_search"
    /\ rows.scope = "A"
    /\ Len(rows.out) >= 1
    /\ \E c \in DOMAIN chunks :
         /\ chunks[c].org_id = "B"
         /\ chunks[c].kw > 0
         /\ chunks[c].dist <= chunks[rows.out[1].id].dist

(* C3: the passages a retrieval endpoint returns to a caller whose        *)
(* session is tenant A's contain no chunk of another tenant, with the     *)
(* X-Org-Id header absent or naming a different tenant.                   *)
C3_EndpointScopedToSession ==
    rows.handler \in RetrievalEndpoints =>
        \A i \in DOMAIN rows.out : chunks[rows.out[i].id].org_id = rows.caller

(* C4: in a drain cycle a record of a recognized type whose replay        *)
(* succeeds is removed from the spool; one whose replay raises (any       *)
(* storage call failing) stays with unchanged content; nothing else       *)
(* removes or rewrites a spool file, and the next cycle lists every       *)
(* record still in the spool.                                             *)
C4_DrainKeepsOrRemoves ==
    [][ /\ \A name \in Handled :
             LET rec == _spool_read(spool, name)
             IN (~Falsy(rec) /\ Get(rec, "type") \in RecognizedTypes) =>
                   /\ step'.name = name
                   /\ step'.fault # "none" => step'.raised
                   /\ IF step'.raised
                      THEN name \in DOMAIN spool' /\ spool'[name] = spool[name]
                      ELSE name \notin DOMAIN spool'
        /\ \A name \in DOMAIN spool \ DOMAIN spool' : name \in Handled
        /\ \A name \in DOMAIN spool \cap DOMAIN spool' : spool'[name] = spool[name]
        /\ (~drain.active /\ drain'.active) => drain'.pending = DOMAIN spool'
      ]_vars

(* A replay of an ingest record raised after the document was upserted   *)
(* (upsert_chunks failed) and the record is still in the spool.          *)
C4_Witness ==
    /\ step.rtype = "ingest"
    /\ step.fault = "write2"
    /\ step.raised
    /\ step.name \in DOMAIN spool
    /\ spool[step.name] = step.file
    /\ documents # Empty

(* The write of a record is already in primary storage (it was replayed). *)
AlreadyWritten(rec) ==
    CASE rec.type = "ingest" ->
            /\ rec.doc_id \in DOMAIN documents
            /\ \A i \in DOMAIN rec.rows : rec.rows[i][1] \in DOMAIN chunks
      [] rec.type = "eval_log" -> rec.row.id \in DOMAIN eval_logs
      [] OTHER -> rec.row.id \in DOMAIN audit_logs

(* C5: replaying a record whose replay already reached primary storage   *)
(* succeeds, leaves primary storage as it was, and the record is         *)
(* deleted; for ingest, eval_log and audit_log records.                  *)
C5_ReplayTwiceIdempotent ==
    [][ \A name \in Handled :
          LET rec == _spool_read(spool, name)
          IN (WellFormed(rec) /\ AlreadyWritten(rec) /\ step'.fault = "none") =>
                /\ ~step'.raised
                /\ name \notin DOMAIN spool'
                /\ <<documents, chunks, eval_logs, audit_logs>>' =
                     <<documents, chunks, eval_logs, audit_logs>>
      ]_vars

(* C6: /query, /answer and /export/pdf spool an 'eval_log' record with   *)
(* the row when get_conn or insert_eval_log fails, and answer as when    *)
(* the insert succeeds.                                                  *)
C6_EvalLogFailureIsSpooled ==
    (call.handler \in {"query", "answer", "export_pdf"} /\ call.fault \in {"conn", "insert"}) =>
        /\ call.status = 200
        /\ call.file \in DOMAIN sent
        /\ sent[call.file].record.type = "eval_log"
        /\ "row" \in DOMAIN sent[call.file].record

(* C7: when the insert of audit_event fails, an 'audit_log' record with  *)
(* the audit row has been spooled.                                       *)
C7_AuditFailureIsSpooled ==
    call.audit = "fail" =>
        \E name \in DOMAIN sent :
            /\ sent[name].record.type = "audit_log"
            /\ sent[name].record.row.id = Uuid(ncalls, "audit")

(* A file that can never be replayed: undecodable or empty, of an         *)
(* unrecognized type, or lacking a key its replay subscripts.            *)
Poison(file) ==
    LET rec == IF file.valid THEN JsonLoads(file.obj) ELSE NoRec
    IN ~WellFormed(rec)

(* C8: a record that can never be replayed is deleted by the drain cycle *)
(* that meets it.                                                        *)
C8_PoisonIsDeleted ==
    (step.name # NoFile /\ Poison(step.file)) => step.name \notin DOMAIN spool

C10_ReplaySameWrite ==
    (step.rtype \in RecognizedTypes /\ ~step.raised /\ step.name \in DOMAIN sent) =>
        step.args = sent[step.name].write

(* 1/(k + rank) of an id in a ranking (1-based), 0 when it is not there, *)
(* as a fraction <<numerator, denominator>>.                              *)
RankTerm(id, ranking, k) ==
    IF \E i \in DOMAIN ranking : ranking[i] = id
    THEN <<1, k + (CHOOSE i \in DOMAIN ranking : ranking[i] = id)>>
    ELSE <<0, 1>>

FracSum(a, b) == <<a[1] * b[2] + b[1] * a[2], a[2] * b[2]>>

FracLess(a, b) == a[1] * b[2] < b[1] * a[2]

FracEq(a, b) == a[1] * b[2] = b[1] * a[2]

(* The fused score the ranking pair of the last fusion gives an id. *)
RrfOf(id) == FracSum(RankTerm(id, fn.ft_ids, fn.rrf_k), RankTerm(id, fn.vec_ids, fn.rrf_k))

FusedIds == {fn.out[i].id : i \in DOMAIN fn.out}

(* C11: the fusion scores every distinct id 1/(k+rank_ft) + 1/(k+rank_vec) *)
(* (a missing list contributing 0), returns distinct ids in non-increasing *)
(* score order, leaves out no id with a strictly higher score than a       *)
(* returned one, and returns at most min(top_k, distinct ids) rows.        *)
C11_RrfScoreAndOrder ==
    fn.op = "fuse" =>
        LET ids == Range(fn.ft_ids) \cup Range(fn.vec_ids)
        IN /\ \A id \in ids :
                FracEq(rrf_score(id, fn.ft_ids, fn.vec_ids, fn.rrf_k), RrfOf(id))
           /\ FusedIds \subseteq ids
           /\ Cardinality(FusedIds) = Len(fn.out)
           /\ \A i, j \in DOMAIN fn.out :
                i < j => ~FracLess(RrfOf(fn.out[i].id), RrfOf(fn.out[j].id))
           /\ \A x \in ids \ FusedIds, y \in FusedIds : ~FracLess(RrfOf(y), RrfOf(x))
           /\ Len(fn.out) <= Min(fn.top_k, Cardinality(ids))

(* A fusion of three ids, one in the full-text ranking only and one in   *)
(* the vector ranking only, cut to two rows of different scores.          *)
C11_Witness ==
    /\ fn.op = "fuse"
    /\ Cardinality(Range(fn.ft_ids) \cup Range(fn.vec_ids)) = 3
    /\ Range(fn.ft_ids) \ Range(fn.vec_ids) # {}
    /\ Range(fn.vec_ids) \ Range(fn.ft_ids) # {}
    /\ Len(fn.out) = 2
    /\ FracLess(RrfOf(fn.out[2].id), RrfOf(fn.out[1].id))

(* C12: the fusion is deterministic (one possible output for a ranking   *)
(* pair and k), ids of equal fused score being ordered by ascending      *)
(* vector distance and then by id.                                       *)
C12_FusionDeterministic ==
    fn.op = "fuse" =>
        /\ Fuse(FuseChunks, fn.ft_ids, RowsOf(FuseChunks, fn.vec_ids), fn.top_k, fn.rrf_k)
             = {fn.out}
        /\ \A i, j \in DOMAIN fn.out :
             (i < j /\ FracEq(RrfOf(fn.out[i].id), RrfOf(fn.out[j].id))) =>
                LET a == fn.out[i].id
                    b == fn.out[j].id
                IN \/ FuseChunks[a].dist < FuseChunks[b].dist
                   \/ (FuseChunks[a].dist = FuseChunks[b].dist /\ a < b)

(* C13: the passages /query and /answer return for a request with a      *)
(* keyword are the reranked RRF fusion of the full-text and the vector   *)
(* rankings (so a near neighbour that does not match the keyword can be  *)
(* among them).                                                          *)
C13_KeywordRetrievalIsFusion ==
    (/\ rows.handler \in {"query", "answer"}
     /\ call.handler = rows.handler
     /\ call.write.row.keyword # None) =>
        \E path \in {"fulltext", "like", "none"} :
          \E found \in hybrid_fusion_search(chunks, documents, call.write.row.top_k,
                                            call.write.row.filter_category, rows.scope, path) :
            \E scores \in [DOMAIN found -> RerankScores] :
               rows.out = Limit(rerank_passages(found, scores), Min(RerankCap, Len(found)))

(* C14: assess_evidence_sufficiency is true exactly when the list is     *)
(* empty, or the first 3 passages total fewer than 250 characters, or    *)
(* the mean distance over all passages is above 0.35.                    *)
C14_SufficiencyRule ==
    fn.op = "assess" =>
        LET ps == fn.passages
            first3 == SubSeq(ps, 1, Min(3, Len(ps)))
        IN fn.out <=> \/ Len(ps) = 0
                      \/ SumText(first3) < 250
                      \/ SumDist(ps) > 35 * Len(ps)

(* Four passages whose first three total exactly 250 characters and      *)
(* whose mean distance is exactly 0.35: the evidence is sufficient.      *)
C14_Witness ==
    /\ fn.op = "assess"
    /\ Len(fn.passages) = 4
    /\ SumText(SubSeq(fn.passages, 1, 3)) = 250
    /\ SumDist(fn.passages) = 35 * 4
    /\ fn.out = FALSE

(* C15: estimate_confidence is 0.6 * clamp(characters of the first 5     *)
(* passages / 1500) + 0.4 * clamp(1 - mean distance) rounded to 3        *)
(* decimals, within [0, 1] for any distances, and 0 for the empty list.  *)
C15_ConfidenceRule ==
    fn.op = "confidence" =>
        LET ps == fn.passages
            n == Len(ps)
            chars == SumText(SubSeq(ps, 1, Min(5, n)))
            cov == IF chars >= 1500 THEN 1500 ELSE chars           \* coverage * 1500
            gap == 100 * n - SumDist(ps)                           \* (1 - mean) * 100 * n
            prox == IF gap <= 0 THEN 0 ELSE IF gap >= 100 * n THEN 100 * n ELSE gap
            num == 2 * cov * n + 20 * prox                         \* thousandths * 5 * n
            err == num - fn.out * 5 * n
        IN /\ 0 <= fn.out /\ fn.out <= 1000
           /\ n = 0 => fn.out = 0
           /\ n > 0 => (2 * err <= 5 * n /\ 0 - 2 * err <= 5 * n)

(* Six passages, those after the fifth not counted in the coverage, a    *)
(* negative distance among them, and a result that needed rounding.      *)
C15_Witness ==
    /\ fn.op = "confidence"
    /\ Len(fn.passages) = 6
    /\ SumText(SubSeq(fn.passages, 1, 5)) < 1500
    /\ SumText(fn.passages) >= 1500
    /\ \E i \in DOMAIN fn.passages : fn.passages[i].dist < 0
    /\ (2 * SumText(SubSeq(fn.passages, 1, 5)) * 6
          + 20 * (600 - SumDist(fn.passages))) % 30 # 0
    /\ fn.out > 0 /\ fn.out < 1000

(* C16: score_pairs never raises: with the reranker disabled, after a    *)
(* failed load, or when predict raises, it returns one 0.0 per passage;  *)
(* a model that was loaded stays loaded after a failed scoring and is    *)
(* the one asked by the next call.                                       *)
C16_ScorePairsDegrades ==
    fn.op = "score" =>
        /\ ~fn.raised
        /\ Len(fn.out) = fn.n
        /\ (\/ ~fn.enabled
            \/ (fn.was = None /\ ~fn.load_ok)
            \/ fn.predict.raises) => \A i \in 1..fn.n : fn.out[i] = 0
        /\ fn.was = "loaded" => (fn.reranker = "loaded" /\ fn.used)
        /\ (fn.used /\ ~fn.predict.raises) => fn.out = fn.predict.scores

(* A call right after one whose predict raised: the model is still       *)
(* loaded and gives a score that is not neutral.                         *)
C16_Witness ==
    /\ fn.op = "score"
    /\ fn.after_failure
    /\ fn.was = "loaded"
    /\ fn.used
    /\ \E i \in 1..fn.n : fn.out[i] # 0

Ids(found) == [i \in DOMAIN found |-> found[i].id]

(* C17: hybrid retrieval degrades to the source that answered: the       *)
(* vector ranking alone when both full-text statements fail, the         *)
(* full-text ranking alone when the vector search fails, and an error    *)
(* only when both sources fail.                                          *)
C17_DegradesToSurvivingSource ==
    fn.op = "hybrid_fusion_search" =>
        LET ft_limit == Max(10, HYBRID_FT_CANDIDATES)
            vec_limit == Max(fn.top_k, HYBRID_VEC_CANDIDATES)
            vec_only == {Limit(v, fn.top_k) :
                           v \in knn_search(chunks, documents, vec_limit,
                                            fn.filter_category, fn.org_id)}
            ft_only == {Limit(f, fn.top_k) :
                          f \in FusionFtRankings(chunks, documents, fn.filter_category,
                                                 fn.org_id, fn.ft, ft_limit)}
        IN /\ (fn.ft = "none" /\ fn.vec_ok) => (~fn.raised /\ fn.out \in vec_only)
           /\ (fn.ft # "none" /\ ~fn.vec_ok) => (~fn.raised /\ Ids(fn.out) \in ft_only)
           /\ fn.raised => (fn.ft = "none" /\ ~fn.vec_ok)

(* C18: a retrieval request whose top_k is below 1 is rejected as an     *)
(* invalid argument before any embedding or storage access: no /query    *)
(* request with such a top_k searches the store or is answered 200.      *)
C18_TopKBelowOneRejected ==
    (/\ call.handler = "query"
     /\ call.write # NoWrite
     /\ call.write.row.top_k < 1) =>
        /\ call.status # 200
        /\ rows.handler = "none"

(* C19: every embedding embed_texts returns has exactly get_embed_dim()  *)
(* components, and a model output of another dimension is rejected:      *)
(* what the model produced is never truncated or zero-padded.            *)
C19_NoSilentResize ==
    fn.op = "embed" =>
        /\ ~fn.raised => \A i \in DOMAIN fn.out : Len(fn.out[i]) = fn.target
        /\ (~fn.force_offline /\ fn.model_ok /\ ~fn.raised) => fn.out = fn.encoded

(* The passages the answer functions receive for fused rows: each row    *)
(* with its chunk's text (300 characters here) and its dist, one unit    *)
(* of dist being a hundredth.                                            *)
PassagesOf(found) == [i \in DOMAIN found |-> [text |-> 300, dist |-> found[i].dist]]

(* Values put in place of the 0.0 of a full-text-only row. *)
OtherDists == {50, 100}

(* C20: the 0.0 distance of a fused row found by full-text only is a     *)
(* sentinel that no consumer reads as a proximity: putting any other     *)
(* value in its place changes neither the order rerank_passages gives,   *)
(* nor the insufficient-evidence flag, nor the confidence.               *)
C20_SentinelNotUsedAsProximity ==
    fn.op = "fuse" =>
        \A i \in DOMAIN fn.out, v \in OtherDists :
            fn.out[i].id \notin Range(fn.vec_ids) =>
                LET other == [fn.out EXCEPT ![i].dist = v]
                IN /\ \A scores \in [DOMAIN fn.out -> RerankScores] :
                         Ids(rerank_passages(other, scores))
                            = Ids(rerank_passages(fn.out, scores))
                   /\ assess_evidence_sufficiency(PassagesOf(other))
                         = assess_evidence_sufficiency(PassagesOf(fn.out))
                   /\ estimate_confidence(PassagesOf(other))
                         = estimate_confidence(PassagesOf(fn.out))

(* C21: the role check for GET /debug/schema answers 403 to a caller     *)
(* with role viewer and lets callers with role admin and with role       *)
(* auditor through to the handler, which answers 200, or 500 when        *)
(* storage is down.                                                      *)
C21_DebugSchemaRoles ==
    (call.handler = "debug_schema" /\ call.valid) =>
        /\ call.role = "viewer" => call.status = 403
        /\ call.role \in {"admin", "auditor"} =>
              call.status = (IF call.fault = "none" THEN 200 ELSE 500)

(* C22: spool writes are atomic for the drain loop: every file the       *)
(* directory lists holds its complete record, and the drain loop never   *)
(* reads or deletes the file of a write that is still in progress.       *)
C22_SpoolWriteAtomic ==
    /\ \A name \in _spool_list(spool) : spool[name].valid
    /\ call.handler = "spool_write_open" => step.name # call.file

(* C23: in every interleaving of concurrent first calls of get_reranker  *)
(* (and of get_model) the constructor runs at most once and every        *)
(* caller obtains the same instance.                                     *)
C23_BuiltOnce ==
    fn.op = "lazy" =>
        /\ fn.built <= 1
        /\ \A t, u \in Threads :
              (fn.pc[t] = "done" /\ fn.pc[u] = "done") => fn.got[t] = fn.got[u]

(* C24: for every key and every interleaving of concurrent calls of      *)
(* _rate_limit_allow, the admitted calls of that key whose timestamps    *)
(* lie within one 60-second window never exceed MCP_MAX_PER_MIN.         *)
C24_RateLimitHolds ==
    fn.op = "rate_limit" =>
        \A i \in DOMAIN fn.admitted :
            Cardinality({j \in DOMAIN fn.admitted :
                           /\ fn.admitted[j][1] = fn.admitted[i][1]
                           /\ fn.admitted[j][2] >= fn.admitted[i][2]
                           /\ fn.admitted[j][2] <= fn.admitted[i][2] + 60})
               <= MCP_MAX_PER_MIN

(* C25: the drain loop and the compaction loop never block request       *)
(* handling: while one of them is inside a storage operation, also one   *)
(* that stalls, a request that has arrived can be accepted.              *)
C25_LoopsNeverBlock ==
    (/\ fn.op = "loop"
     /\ fn.holder \in BackgroundTasks
     /\ Cycle(fn.holder)[fn.at[fn.holder]] \in StorageSteps
     /\ fn.waiting > 0) => LoopFree

(* C26: every storage connection a request handler or a replay acquires  *)
(* is released when that operation ends, on success and on every failure *)
(* path: with no operation in progress no connection is open.            *)
C26_ConnectionsReleased ==
    (fn.op = "conn" /\ fn.at = 0) => fn.open = 0

(* C27: with primary storage available and a fair drain loop, every      *)
(* record in the spool is eventually removed from it, a record whose     *)
(* write had already committed included: a spool that holds records      *)
(* eventually holds none.                                                *)
C27_SpoolEventuallyDrained ==
    (DOMAIN spool # {}) ~> (DOMAIN spool = {})

(* C28: a rating submitted through /feedback for the eval_id an /answer  *)
(* returned is stored on that evaluation-log entry, also when the entry  *)
(* was still in the spool when the feedback arrived: once the spool is   *)
(* drained the entry carries the submitted rating.                       *)
C28_RatingStored ==
    (/\ call.handler = "feedback" /\ call.status = 200
     /\ DOMAIN spool = {} /\ ~drain.active) =>
        /\ call.eval_id \in DOMAIN eval_logs
        /\ eval_logs[call.eval_id].rating = call.write.rating

(* C29: make_chunks terminates for every text and every integer          *)
(* chunk_size and overlap the request schema accepts, chunk_size <= 0,   *)
(* overlap < 0 and overlap >= chunk_size included.                       *)
C29_MakeChunksTerminates ==
    (fn.op = "make_chunks") ~> (fn.op = "make_chunks" /\ fn.returned)

(* C30: for chunk_size >= 1 and 0 <= overlap < chunk_size the chunks     *)
(* hold at most chunk_size tokens, together hold every token of the text *)
(* in order, and every chunk after the first starts with the last        *)
(* overlap tokens of the chunk before it.                                *)
C30_ChunksCoverAndOverlap ==
    (/\ fn.op = "make_chunks" /\ fn.returned
     /\ fn.chunk_size >= 1 /\ fn.overlap >= 0 /\ fn.overlap < fn.chunk_size) =>
        LET res == fn.res
            ov == fn.overlap
        IN /\ \A k \in DOMAIN res : Len(res[k]) <= fn.chunk_size
           /\ \A t \in DOMAIN fn.tokens : \E k \in DOMAIN res : \E x \in DOMAIN res[k] : res[k][x] = t
           /\ \A k \in DOMAIN res : \A x \in DOMAIN res[k] :
                 x > 1 => res[k][x] = res[k][x - 1] + 1
           /\ \A k \in DOMAIN res : k > 1 => res[k - 1][Len(res[k - 1])] < res[k][Len(res[k])]
           /\ \A k \in DOMAIN res : k > 1 =>
                 /\ Len(res[k]) >= ov /\ Len(res[k - 1]) >= ov
                 /\ SubSeq(res[k], 1, ov)
                      = SubSeq(res[k - 1], Len(res[k - 1]) - ov + 1, Len(res[k - 1]))

====
